---------------------------- MODULE Spec2Model ----------------------------
(***************************************************************************)
(* A model of the khabar news pipeline: the batch deduplicator             *)
(* (build_master_csv), the recency filter (is_recent), the keyword trigger *)
(* matcher (find_keywords) and the ingestion loops of the RSS and the      *)
(* Google-Alerts scrapers.                                                 *)
(*                                                                         *)
(* Text is a sequence of one-character strings, so that strip(), lower(),  *)
(* split() and the regular expressions of the code are computed character  *)
(* by character.  Python's None is the value None below.                   *)
(***************************************************************************)
EXTENDS Integers, Sequences, FiniteSets, TLC

VARIABLES
    \* ---- build_master_csv (local_dedupe_rss.py)
    csv_files,      \* the ordered list of input files handed to build_master_csv
    out_file,       \* the file at out_path
    out_before,     \* the file at out_path when build_master_csv was called
    pc,             \* position inside build_master_csv
    fileIdx,        \* index of the file the outer loop is at
    rowIdx,         \* index of the next physical row of that file
    seen,           \* set of identity tuples
    unique_rows,    \* list of kept row dicts
    total_rows,     \* rows read so far
    result,         \* the returned triple, once returned
    \* ---- is_recent (news_rss_scraper.py, news_google_scraper.py)
    r_variant,      \* which script's is_recent is called
    r_today,        \* datetime.now().date(), as a day ordinal
    r_pubdate,      \* the argument
    r_result,       \* <<the returned value>>, once returned
    \* ---- find_keywords (news_rss_scraper.py)
    k_text,         \* the text argument
    k_keywords,     \* the keyword set, in the order the loop iterates it
    k_result,       \* <<the returned list>>, once returned
    \* ---- main of news_rss_scraper.py and of news_google_scraper.py
    i_script,       \* "rss" or "google": the script that runs
    i_feeds,        \* feeds, as read from the configuration
    i_today,        \* datetime.now().date() of the run, a day ordinal
    i_keywords,     \* KEYWORDS, in the order the set iterates (RSS only)
    i_pc,           \* "fetch", "parse", "entries" or "finished"
    i_idx,          \* index in feeds of the feed being processed
    i_count,        \* len(d.entries) of the feed being processed
    i_k,            \* entries of this feed already taken by the loop
    i_taken,        \* entries the feeds of this run have given so far
    i_tiers,        \* the network calls of the last fetch, with their answers
    i_parsed,       \* <<[count, bozo]>> of the last feedparser.parse, <<>> if it raised
    i_last,         \* <<[entry, outcome]>> of the entry taken last
    all_articles,
    seen_urls,
    seen_titles,    \* seen_titles (RSS), seen_title_date (Google)
    error_log,
    successful_feeds,
    output_csv,     \* rows of OUTPUT_CSV, <<>> until written
    output_error_log, \* <<rows of OUTPUT_ERROR_LOG>>, <<>> until written
    \* ---- the selection of dated files (dedupe_google_weekly.py,
    \*      fetch_week_from_drive.py, local_dedupe_rss.py, dedupe_rss.py)
    s_script,       \* "weekly", "drive", "local" or "range": the script that runs
    s_folder,       \* the files of the scanned folder, in the order it enumerates them
    s_today,        \* the date of the run, a day ordinal
    s_cli,          \* <<the date given on the command line>>, <<>> if none
    s_window_days,  \* window_days of filter_files_for_week
    s_pc,           \* "list", "select", "done", "raised" or "exit"
    s_entries,      \* the listing: csv_entries, candidates
    s_start,        \* <<the start date of the selection>>, once known
    s_selected,     \* the selected files, in the order handed on
    \* ---- build_master_csv (dedupe_google_weekly.py), build_master_json (dedupe_rss.py)
    m_script,       \* "weekly": build_master_csv runs; "json": build_master_json runs
    m_files,        \* csv_files, json_files: the ordered input files
    m_out,          \* the file at out_path
    m_pc,           \* "read", "done" or "raised"
    m_idx,          \* index of the file the loop is at
    m_acc,          \* seen, unique_rows or unique_objs, total_rows or total_objs
    m_result,       \* the returned triple, once returned
    \* ---- upload_file, main (upload_digests_to_gdrive.py)
    u_args,         \* sys.argv[1:], each [name, is_file]
    u_folder,       \* the files of the Drive folder that are not trashed
    u_next_id,      \* the id Drive gives the next file created
    u_i,            \* index in sys.argv[1:] of the path main is at
    u_pc,           \* "main", "delete" or "raised"
    u_existing,     \* existing["files"], the answer to the query
    u_k,            \* index in existing["files"] of the file the loop is at
    u_last,         \* the answer of Drive to the last request
    \* ---- _extract_best_link (news_google_scraper.py), called on its own
    l_entry,        \* the entry: its link, and the href of each of its links
    l_pc,           \* "call" or "done"
    l_result,       \* the returned string, once returned
    \* ---- _extract_snippet (news_google_scraper.py), called on its own
    n_entry,        \* the entry: content, summary and description
    n_pc,           \* "call" or "done"
    n_result,       \* the returned snippet, once returned
    \* ---- most_recent_friday, compute_week_window, called on their own
    f_today,        \* the date given, a day ordinal
    f_pc,           \* "call" or "done"
    f_result,       \* <<the Friday>> or <<start_date, end_date>>, once returned
    \* ---- main of local_dedupe_rss.py, run again and again on one folder
    g_folder,       \* the files of ARTICLES_DIR, each with its name and its header
    g_runs,         \* the runs made so far
    g_added,        \* the daily files added since the first run began
    g_last,         \* <<[outcome, start, selected]>> of the last run
    g_written       \* the rollups the runs wrote, each with the files it was built from

dedupeVars == <<csv_files, out_file, out_before, pc, fileIdx, rowIdx, seen,
                unique_rows, total_rows, result>>

recentVars == <<r_variant, r_today, r_pubdate, r_result>>

keywordVars == <<k_text, k_keywords, k_result>>

ingestVars == <<i_script, i_feeds, i_today, i_keywords, i_pc, i_idx, i_count,
                i_k, i_taken, i_tiers, i_parsed, i_last, all_articles, seen_urls, seen_titles, error_log,
                successful_feeds, output_csv, output_error_log>>

selectVars == <<s_script, s_folder, s_today, s_cli, s_window_days, s_pc,
                s_entries, s_start, s_selected>>

masterVars == <<m_script, m_files, m_out, m_pc, m_idx, m_acc, m_result>>

uploadVars == <<u_args, u_folder, u_next_id, u_i, u_pc, u_existing, u_k,
                u_last>>

linkVars == <<l_entry, l_pc, l_result>>

snippetVars == <<n_entry, n_pc, n_result>>

fridayVars == <<f_today, f_pc, f_result>>

rollupVars == <<g_folder, g_runs, g_added, g_last, g_written>>

vars == <<dedupeVars, recentVars, keywordVars, ingestVars, selectVars, masterVars, uploadVars, linkVars, snippetVars, fridayVars, rollupVars>>

---------------------------------------------------------------------------
\* Bounds of the model.

MaxFiles == 2        \* files in one call of build_master_csv
MaxTotalRows == 3    \* physical rows over all the files of one call
MaxDayOffset == 3    \* a published date lies within this many days of today
MaxTextLen == 4      \* characters of the text handed to find_keywords
MaxRunEntries == 3   \* entries the feeds of one scraper run give in all

---------------------------------------------------------------------------
\* Generic helpers.

Range(s) == {s[i] : i \in 1..Len(s)}

None == <<"<None>">>

Empty == <<>>

Whitespace == {" ", "\t", "\n", "\r"}

RECURSIVE lstrip(_)
lstrip(s) ==
    IF s # <<>> /\ Head(s) \in Whitespace THEN lstrip(Tail(s)) ELSE s

RECURSIVE rstrip(_)
rstrip(s) ==
    IF s # <<>> /\ s[Len(s)] \in Whitespace
    THEN rstrip(SubSeq(s, 1, Len(s) - 1))
    ELSE s

\* str.strip(): leading and trailing whitespace removed
strip(s) == rstrip(lstrip(s))

\* Python's `x or ""` on a cell that may be None
OrEmpty(x) == IF x = None \/ x = <<>> THEN Empty ELSE x

RECURSIVE SeqSum(_)
SeqSum(s) == IF s = <<>> THEN 0 ELSE Head(s) + SeqSum(Tail(s))

RECURSIVE Flatten(_)
Flatten(ss) == IF ss = <<>> THEN <<>> ELSE Head(ss) \o Flatten(Tail(ss))

---------------------------------------------------------------------------
\* build_master_csv

FIELDS == <<"keywords", "title", "snippet", "date_published", "source_domain", "url">>

\* csv.DictReader: one physical row (a list of cells) under the header
\* `fieldnames`.  A later duplicate column wins; a column past the end of a
\* short row reads None (restval); the cells past the header go under the
\* key None, which no code reads.
DictRow(fieldnames, cells) ==
    [k \in Range(fieldnames) |->
        LET pos == {i \in 1..Len(fieldnames) : fieldnames[i] = k}
            last == CHOOSE i \in pos : \A j \in pos : j <= i
        IN  IF \E i \in pos : i > Len(cells) THEN None ELSE cells[last]]

\* dict.get(k, default)
Get(d, k, default) == IF k \in DOMAIN d THEN d[k] ELSE default

\* missing = [k for k in FIELDS if k not in (reader.fieldnames or [])]
MissingFields_firstOnly(fieldnames) ==
    SelectSeq(SubSeq(FIELDS, 1, 1), LAMBDA k : k \notin Range(fieldnames))

MissingFields(fieldnames) ==
    SelectSeq(FIELDS, LAMBDA k : k \notin Range(fieldnames))

\* identity = tuple((row.get(k, "") or "").strip() for k in FIELDS)
identity_titleOnly(row) ==
    [i \in 1..Len(FIELDS) |->
        IF FIELDS[i] = "title" THEN strip(OrEmpty(Get(row, FIELDS[i], Empty))) ELSE Empty]

identity(row) ==
    [i \in 1..Len(FIELDS) |-> strip(OrEmpty(Get(row, FIELDS[i], Empty)))]

\* {k: row.get(k, "") for k in FIELDS}
StoredRow(row) == [k \in Range(FIELDS) |-> Get(row, k, Empty)]

\* The body of `for row in reader:` on the accumulators.
ProcessRow_keepAll(acc, row) ==
    [acc EXCEPT !.total_rows = @ + 1,
                !.seen = @ \cup {identity(row)},
                !.unique_rows = Append(@, StoredRow(row))]

ProcessRow_stripStored(acc, row) ==
    LET raw == [i \in 1..Len(FIELDS) |-> OrEmpty(Get(row, FIELDS[i], Empty))]
    IN  IF raw \in acc.seen
        THEN [acc EXCEPT !.total_rows = @ + 1]
        ELSE [acc EXCEPT !.total_rows = @ + 1,
                         !.seen = @ \cup {raw},
                         !.unique_rows =
                             Append(@, [k \in Range(FIELDS) |->
                                           strip(OrEmpty(Get(row, k, Empty)))])]

ProcessRow_lastWins(acc, row) ==
    IF identity(row) \in acc.seen
    THEN [acc EXCEPT !.total_rows = @ + 1,
                     !.unique_rows =
                         [i \in 1..Len(@) |->
                             IF identity(@[i]) = identity(row)
                             THEN StoredRow(row) ELSE @[i]]]
    ELSE [acc EXCEPT !.total_rows = @ + 1,
                     !.seen = @ \cup {identity(row)},
                     !.unique_rows = Append(@, StoredRow(row))]

ProcessRow(acc, row) ==
    IF identity(row) \in acc.seen
    THEN [acc EXCEPT !.total_rows = @ + 1]
    ELSE [acc EXCEPT !.total_rows = @ + 1,
                     !.seen = @ \cup {identity(row)},
                     !.unique_rows = Append(@, StoredRow(row))]

\* csv.writer writes None as the empty string
CsvCell(v) == IF v = None THEN Empty ELSE v

\* writer.writeheader(); for r in unique_rows: writer.writerow(r)
WrittenFile(rows) ==
    [exists |-> TRUE,
     fieldnames |-> FIELDS,
     rows |-> [i \in 1..Len(rows) |->
                 [j \in 1..Len(FIELDS) |-> CsvCell(rows[i][FIELDS[j]])]]]

\* unique_count, total_rows, dup_count = max(0, total_rows - unique_count)
Counts(acc) ==
    LET u == Len(acc.unique_rows)
        d == acc.total_rows - u
    IN  <<u, acc.total_rows, IF d > 0 THEN d ELSE 0>>

AccInit == [seen |-> {}, unique_rows |-> <<>>, total_rows |-> 0, error |-> FALSE]

\* `for row in reader:` from physical row i on; csv.DictReader skips a blank
\* line (row == [])
RECURSIVE ReadRows(_, _, _)
ReadRows(acc, f, i) ==
    IF i > Len(f.rows) THEN acc
    ELSE IF f.rows[i] = <<>> THEN ReadRows(acc, f, i + 1)
    ELSE ReadRows(ProcessRow(acc, DictRow(f.fieldnames, f.rows[i])), f, i + 1)

RECURSIVE ReadFiles(_, _, _)
ReadFiles(acc, files, i) ==
    IF i > Len(files) THEN acc
    ELSE IF MissingFields(files[i].fieldnames) # <<>>
         THEN [acc EXCEPT !.error = TRUE]
         ELSE ReadFiles(ReadRows(acc, files[i], 1), files, i + 1)

\* build_master_csv as a function of its inputs and of the file at out_path:
\* the file at out_path afterwards, and the returned triple (or the raise).
BuildMasterCsv(files, before) ==
    LET acc == ReadFiles(AccInit, files, 1)
    IN  IF acc.error
        THEN [raised |-> TRUE, out |-> before, result |-> <<>>]
        ELSE [raised |-> FALSE, out |-> WrittenFile(acc.unique_rows),
              result |-> Counts(acc)]

---------------------------------------------------------------------------
\* The inputs build_master_csv is run on.

NoFile == [exists |-> FALSE, fieldnames |-> <<>>, rows |-> <<>>]

\* physical rows of a daily file, in the column order of FIELDS: a row, the
\* same row padded with whitespace, a row cut short after the title, and a
\* blank line
RowA      == << <<"k">>, <<"a">>, <<>>, <<"d">>, <<>>, <<"u">> >>
RowApad   == << <<"k">>, <<" ", "a">>, <<>>, <<"d">>, <<>>, <<"u", " ">> >>
RowShort  == << <<"k">>, <<"a">> >>
RowBlank  == <<>>

RowPool == {RowA, RowApad, RowShort, RowBlank}

\* headers: the scraper's header (the schema followed by in_roundup), and a
\* header that lacks "url"
HeaderDaily == FIELDS \o <<"in_roundup">>
HeaderDrift == SubSeq(FIELDS, 1, 5)

HeaderPool == {HeaderDaily, HeaderDrift}

\* the list of files with headers hdrs[i] that holds the physical rows `rows`,
\* lens[i] of them in file i
FileList(hdrs, lens, rows) ==
    [i \in 1..Len(hdrs) |->
        LET before == SeqSum(SubSeq(lens, 1, i - 1))
        IN  [exists |-> TRUE, fieldnames |-> hdrs[i],
             rows |-> SubSeq(rows, before + 1, before + lens[i])]]

OldOutput == WrittenFile(<<[k \in Range(FIELDS) |-> <<"o">>]>>)

InitDedupe ==
    /\ \E m \in 0..MaxFiles, n \in 0..MaxTotalRows :
         \E hdrs \in [1..m -> HeaderPool], lens \in [1..m -> 0..n],
            rows \in [1..n -> RowPool] :
             /\ SeqSum(lens) = n
             /\ csv_files = FileList(hdrs, lens, rows)
    /\ out_before \in {NoFile, OldOutput}
    /\ out_file = out_before
    /\ pc = "open"
    /\ fileIdx = 1
    /\ rowIdx = 1
    /\ seen = {}
    /\ unique_rows = <<>>
    /\ total_rows = 0
    /\ result = <<>>
    \* the other components stay idle
    /\ r_variant = "idle" /\ r_today = 0 /\ r_pubdate = <<>> /\ r_result = <<>>
    /\ k_text = <<>> /\ k_keywords = <<>> /\ k_result = <<>>
    /\ i_script = "idle" /\ i_feeds = <<>> /\ i_today = 0 /\ i_keywords = <<>>
    /\ i_pc = "idle" /\ i_idx = 0 /\ i_count = 0 /\ i_k = 0 /\ i_taken = 0 /\ i_tiers = <<>>
    /\ i_parsed = <<>>
    /\ i_last = <<>>
    /\ all_articles = <<>> /\ seen_urls = {} /\ seen_titles = {}
    /\ error_log = <<>> /\ successful_feeds = 0
    /\ output_csv = <<>> /\ output_error_log = <<>>
    /\ s_script = "idle" /\ s_folder = <<>> /\ s_today = 0 /\ s_cli = <<>>
    /\ s_window_days = 0 /\ s_pc = "idle" /\ s_entries = <<>> /\ s_start = <<>>
    /\ s_selected = <<>>
    /\ m_script = "idle" /\ m_files = <<>> /\ m_out = <<>> /\ m_pc = "idle"
    /\ m_idx = 0 /\ m_acc = <<>> /\ m_result = <<>>
    /\ u_args = <<>> /\ u_folder = {} /\ u_next_id = 0 /\ u_i = 0 /\ u_pc = "idle"
    /\ u_existing = <<>> /\ u_k = 0 /\ u_last = "none"
    /\ l_entry = <<>> /\ l_pc = "idle" /\ l_result = <<>>
    /\ n_entry = <<>> /\ n_pc = "idle" /\ n_result = <<>>
    /\ f_today = 0 /\ f_pc = "idle" /\ f_result = <<>>
    /\ g_folder = <<>> /\ g_runs = 0 /\ g_added = 0 /\ g_last = <<>> /\ g_written = <<>>

Acc == [seen |-> seen, unique_rows |-> unique_rows, total_rows |-> total_rows,
        error |-> FALSE]

\* `for fp in csv_files:` opens the next file and checks its header
OpenFile ==
    /\ pc = "open"
    /\ fileIdx <= Len(csv_files)
    /\ IF MissingFields(csv_files[fileIdx].fieldnames) # <<>>
       THEN pc' = "raised"
       ELSE pc' = "rows"
    /\ rowIdx' = 1
    /\ UNCHANGED <<csv_files, out_file, out_before, fileIdx, seen, unique_rows,
                   total_rows, result,
                   recentVars, keywordVars, ingestVars, selectVars, masterVars, uploadVars, linkVars, snippetVars, fridayVars, rollupVars>>

\* `for row in reader:` one physical row
ReadRow ==
    /\ pc = "rows"
    /\ rowIdx <= Len(csv_files[fileIdx].rows)
    /\ LET f == csv_files[fileIdx]
           cells == f.rows[rowIdx]
           acc == IF cells = <<>> THEN Acc
                  ELSE ProcessRow(Acc, DictRow(f.fieldnames, cells))
       IN  /\ seen' = acc.seen
           /\ unique_rows' = acc.unique_rows
           /\ total_rows' = acc.total_rows
    /\ rowIdx' = rowIdx + 1
    /\ UNCHANGED <<csv_files, out_file, out_before, pc, fileIdx, result,
                   recentVars, keywordVars, ingestVars, selectVars, masterVars, uploadVars, linkVars, snippetVars, fridayVars, rollupVars>>

\* the reader is exhausted: the `with` block ends, on to the next file
CloseFile ==
    /\ pc = "rows"
    /\ rowIdx > Len(csv_files[fileIdx].rows)
    /\ fileIdx' = fileIdx + 1
    /\ pc' = "open"
    /\ UNCHANGED <<csv_files, out_file, out_before, rowIdx, seen, unique_rows,
                   total_rows, result,
                   recentVars, keywordVars, ingestVars, selectVars, masterVars, uploadVars, linkVars, snippetVars, fridayVars, rollupVars>>

\* after the loop: write out_path and return the counts
WriteOutput ==
    /\ pc = "open"
    /\ fileIdx > Len(csv_files)
    /\ out_file' = WrittenFile(unique_rows)
    /\ result' = Counts(Acc)
    /\ pc' = "done"
    /\ UNCHANGED <<csv_files, out_before, fileIdx, rowIdx, seen, unique_rows,
                   total_rows,
                   recentVars, keywordVars, ingestVars, selectVars, masterVars, uploadVars, linkVars, snippetVars, fridayVars, rollupVars>>

NextDedupe == OpenFile \/ ReadRow \/ CloseFile \/ WriteOutput

SpecDedupe == InitDedupe /\ [][NextDedupe]_vars

---------------------------------------------------------------------------
\* is_recent

DAYS_LIMIT == 1

\* A date string is modelled by what dateutil reads from it: the calendar day
\* written in it (a day ordinal, as date.toordinal()), the time of day in
\* minutes, and the UTC offset when one is written ("naive" when none is).  A string dateutil cannot read is "unparseable"; an argument
\* that is no string at all is "nonstring".
ParserError == [raised |-> "ParserError"]

TypeError == [raised |-> "TypeError"]

\* dateparser.parse(pubdate, ignoretz=...): a datetime, or a raise
dateparser_parse(pubdate, ignoretz) ==
    CASE pubdate.kind = "nonstring"   -> TypeError
      [] pubdate.kind = "unparseable" -> ParserError
      [] OTHER -> [day |-> pubdate.day, minutes |-> pubdate.minutes,
                   tzinfo |-> IF ignoretz THEN "naive" ELSE pubdate.tz]

UtcOffsetMinutes(tz) ==
    CASE tz = "-05:00" -> -300
      [] tz = "+05:30" -> 330
      [] OTHER -> 0

date_utc(dt) ==
    LET utcMinutes == dt.minutes - UtcOffsetMinutes(dt.tzinfo)
    IN  IF utcMinutes < 0 THEN dt.day - 1
        ELSE IF utcMinutes >= 1440 THEN dt.day + 1 ELSE dt.day

\* datetime.date(): the calendar day of the wall-clock fields, whatever tzinfo is
date(dt) == dt.day

\* is_recent(pubdate) when datetime.now().date() is `today`; the RSS script
\* parses with ignoretz=True, the Google script with the default
is_recent(variant, pubdate, today) ==
    LET parsed == dateparser_parse(pubdate, variant = "rss")
    IN  IF "raised" \in DOMAIN parsed THEN FALSE
        ELSE LET pub_date == date(parsed)
                 past_days == today - pub_date
                 future_days == pub_date - today
             IN  IF 0 <= past_days /\ past_days <= DAYS_LIMIT THEN TRUE
                 ELSE IF future_days = 1 THEN TRUE
                 ELSE FALSE

\* the arguments is_recent is applied to
TodayPool == {738000, 738001}

DateStrings(today) ==
    [kind : {"string"},
     day : (today - MaxDayOffset)..(today + MaxDayOffset),
     minutes : {0, 1410},
     tz : {"naive", "-05:00", "+05:30"}]
    \cup {[kind |-> "unparseable"], [kind |-> "nonstring"]}

InitRecent ==
    /\ r_variant \in {"rss", "google"}
    /\ r_today \in TodayPool
    /\ r_pubdate \in DateStrings(r_today)
    /\ r_result = <<>>
    \* the other components stay idle
    /\ csv_files = <<>> /\ out_file = <<>> /\ out_before = <<>> /\ pc = "idle"
    /\ fileIdx = 0 /\ rowIdx = 0 /\ seen = {} /\ unique_rows = <<>>
    /\ total_rows = 0 /\ result = <<>>
    /\ k_text = <<>> /\ k_keywords = <<>> /\ k_result = <<>>
    /\ i_script = "idle" /\ i_feeds = <<>> /\ i_today = 0 /\ i_keywords = <<>>
    /\ i_pc = "idle" /\ i_idx = 0 /\ i_count = 0 /\ i_k = 0 /\ i_taken = 0 /\ i_tiers = <<>>
    /\ i_parsed = <<>>
    /\ i_last = <<>>
    /\ all_articles = <<>> /\ seen_urls = {} /\ seen_titles = {}
    /\ error_log = <<>> /\ successful_feeds = 0
    /\ output_csv = <<>> /\ output_error_log = <<>>
    /\ s_script = "idle" /\ s_folder = <<>> /\ s_today = 0 /\ s_cli = <<>>
    /\ s_window_days = 0 /\ s_pc = "idle" /\ s_entries = <<>> /\ s_start = <<>>
    /\ s_selected = <<>>
    /\ m_script = "idle" /\ m_files = <<>> /\ m_out = <<>> /\ m_pc = "idle"
    /\ m_idx = 0 /\ m_acc = <<>> /\ m_result = <<>>
    /\ u_args = <<>> /\ u_folder = {} /\ u_next_id = 0 /\ u_i = 0 /\ u_pc = "idle"
    /\ u_existing = <<>> /\ u_k = 0 /\ u_last = "none"
    /\ l_entry = <<>> /\ l_pc = "idle" /\ l_result = <<>>
    /\ n_entry = <<>> /\ n_pc = "idle" /\ n_result = <<>>
    /\ f_today = 0 /\ f_pc = "idle" /\ f_result = <<>>
    /\ g_folder = <<>> /\ g_runs = 0 /\ g_added = 0 /\ g_last = <<>> /\ g_written = <<>>

CallIsRecent ==
    /\ r_result = <<>>
    /\ r_result' = <<is_recent(r_variant, r_pubdate, r_today)>>
    /\ UNCHANGED <<r_variant, r_today, r_pubdate, dedupeVars, keywordVars, ingestVars, selectVars, masterVars, uploadVars, linkVars, snippetVars, fridayVars, rollupVars>>

NextRecent == CallIsRecent

SpecRecent == InitRecent /\ [][NextRecent]_vars

---------------------------------------------------------------------------
\* find_keywords

\* The characters of the model: two letters, a capital, the fullwidth small a
\* (U+FF41, which NFKC folds to "a"), a space, a comma, an apostrophe, a plus
\* and the compound separator.
FullwidthA == "U+FF41"

WordChars == {"a", "b", "A", FullwidthA}

Quotes == {"\"", "'"}

\* \w and \s of Python's re on str
IsWord(c) == c \in WordChars

IsSpace(c) == c \in Whitespace

MapSeq(s, F(_)) == [i \in 1..Len(s) |-> F(s[i])]

\* s from index i on, without the characters whose index is in `removed`
RECURSIVE DropIndices(_, _, _)
DropIndices(s, i, removed) ==
    IF i > Len(s) THEN <<>>
    ELSE (IF i \in removed THEN <<>> ELSE <<s[i]>>) \o DropIndices(s, i + 1, removed)

\* unicodedata.normalize("NFKC", c) and str.lower() on one character
nfkc_char(c) == IF c = FullwidthA THEN "a" ELSE c

lower_char(c) == IF c = "A" THEN "a" ELSE IF c = "Y" THEN "y" ELSE c

lower(s) == MapSeq(s, lower_char)

\* re.sub(r'(\w)["'...]+(?=\s|$)', r'\1', text): a maximal run of quotes
\* that follows a word character and is followed by whitespace or the end
\* is removed
StripTrailingQuotes(s) ==
    LET RunStart(i) == CHOOSE a \in 1..i :
                           /\ \A j \in a..i : s[j] \in Quotes
                           /\ (a = 1 \/ s[a - 1] \notin Quotes)
        RunEnd(i) == CHOOSE b \in i..Len(s) :
                           /\ \A j \in i..b : s[j] \in Quotes
                           /\ (b = Len(s) \/ s[b + 1] \notin Quotes)
        Removed(i) == /\ s[i] \in Quotes
                      /\ RunStart(i) > 1
                      /\ IsWord(s[RunStart(i) - 1])
                      /\ (RunEnd(i) = Len(s) \/ IsSpace(s[RunEnd(i) + 1]))
    IN  DropIndices(s, 1, {i \in 1..Len(s) : Removed(i)})

\* re.sub(r'(\w),(?=\s|$)', r'\1', text)
StripTrailingCommas(s) ==
    LET Removed(i) == /\ s[i] = ","
                      /\ i > 1
                      /\ IsWord(s[i - 1])
                      /\ (i = Len(s) \/ IsSpace(s[i + 1]))
    IN  DropIndices(s, 1, {i \in 1..Len(s) : Removed(i)})

normalize(text) ==
    StripTrailingCommas(StripTrailingQuotes(lower(MapSeq(text, nfkc_char))))

\* \b at the gap before position p (1..Len(s)+1) of s
AtBoundary(s, p) ==
    (p > 1 /\ IsWord(s[p - 1])) # (p <= Len(s) /\ IsWord(s[p]))

\* re.search(r'\b{}\b'.format(re.escape(pat)), s)
WordSearch_substring(pat, s) ==
    \E i \in 1..(Len(s) - Len(pat) + 1) : SubSeq(s, i, i + Len(pat) - 1) = pat

WordSearch(pat, s) ==
    \E i \in 1..(Len(s) - Len(pat) + 1) :
        /\ SubSeq(s, i, i + Len(pat) - 1) = pat
        /\ AtBoundary(s, i)
        /\ AtBoundary(s, i + Len(pat))

\* kw.split("&")
RECURSIVE split(_, _)
split(s, sep) ==
    IF \A i \in 1..Len(s) : s[i] # sep THEN <<s>>
    ELSE LET k == CHOOSE i \in 1..Len(s) :
                      s[i] = sep /\ \A j \in 1..(i - 1) : s[j] # sep
         IN  <<SubSeq(s, 1, k - 1)>> \o split(SubSeq(s, k + 1, Len(s)), sep)

\* parts = [p.strip() for p in kw.split("&") if p.strip()]
Parts(kw) ==
    SelectSeq(MapSeq(split(kw, "&"), strip), LAMBDA part : part # <<>>)

\* the test of the loop body of find_keywords on one keyword
Triggered_anyPart(kw, norm_text) ==
    IF "&" \in Range(kw)
    THEN Parts(kw) # <<>> /\ \E i \in 1..Len(Parts(kw)) : WordSearch(Parts(kw)[i], norm_text)
    ELSE WordSearch(kw, norm_text)

Triggered(kw, norm_text) ==
    IF "&" \in Range(kw)
    THEN Parts(kw) # <<>> /\ \A i \in 1..Len(Parts(kw)) : WordSearch(Parts(kw)[i], norm_text)
    ELSE WordSearch(kw, norm_text)

\* find_keywords(text, keywords), the keyword set iterated in the order of the
\* sequence `keywords`
find_keywords(text, keywords) ==
    IF text = <<>> \/ text = None THEN <<>>
    ELSE SelectSeq(keywords, LAMBDA kw : Triggered(kw, normalize(text)))

\* the configured words: plain words, a word ending in a non-word character,
\* compounds, and compounds with an empty part or with no part at all
KW_a     == <<"a">>
KW_ab    == <<"a", "b">>
KW_aplus == <<"a", "+">>
KW_a_b   == <<"a", " ", "&", " ", "b">>
KW_b_ab  == <<"b", "&", "a", "b">>
KW_a_    == <<"a", "&">>
KW_amp   == <<"&">>

KeywordPool == <<KW_a, KW_ab, KW_aplus, KW_a_b, KW_b_ab, KW_a_, KW_amp>>

Reverse(s) == [i \in 1..Len(s) |-> s[Len(s) + 1 - i]]

TextAlphabet == {"a", "b", "A", FullwidthA, " ", ",", "'", "+"}

Texts == UNION {[1..n -> TextAlphabet] : n \in 0..MaxTextLen}

InitKeywords ==
    /\ k_text \in Texts
    /\ k_keywords \in {KeywordPool, Reverse(KeywordPool)}
    /\ k_result = <<>>
    \* the other components stay idle
    /\ csv_files = <<>> /\ out_file = <<>> /\ out_before = <<>> /\ pc = "idle"
    /\ fileIdx = 0 /\ rowIdx = 0 /\ seen = {} /\ unique_rows = <<>>
    /\ total_rows = 0 /\ result = <<>>
    /\ r_variant = "idle" /\ r_today = 0 /\ r_pubdate = <<>> /\ r_result = <<>>
    /\ i_script = "idle" /\ i_feeds = <<>> /\ i_today = 0 /\ i_keywords = <<>>
    /\ i_pc = "idle" /\ i_idx = 0 /\ i_count = 0 /\ i_k = 0 /\ i_taken = 0 /\ i_tiers = <<>>
    /\ i_parsed = <<>>
    /\ i_last = <<>>
    /\ all_articles = <<>> /\ seen_urls = {} /\ seen_titles = {}
    /\ error_log = <<>> /\ successful_feeds = 0
    /\ output_csv = <<>> /\ output_error_log = <<>>
    /\ s_script = "idle" /\ s_folder = <<>> /\ s_today = 0 /\ s_cli = <<>>
    /\ s_window_days = 0 /\ s_pc = "idle" /\ s_entries = <<>> /\ s_start = <<>>
    /\ s_selected = <<>>
    /\ m_script = "idle" /\ m_files = <<>> /\ m_out = <<>> /\ m_pc = "idle"
    /\ m_idx = 0 /\ m_acc = <<>> /\ m_result = <<>>
    /\ u_args = <<>> /\ u_folder = {} /\ u_next_id = 0 /\ u_i = 0 /\ u_pc = "idle"
    /\ u_existing = <<>> /\ u_k = 0 /\ u_last = "none"
    /\ l_entry = <<>> /\ l_pc = "idle" /\ l_result = <<>>
    /\ n_entry = <<>> /\ n_pc = "idle" /\ n_result = <<>>
    /\ f_today = 0 /\ f_pc = "idle" /\ f_result = <<>>
    /\ g_folder = <<>> /\ g_runs = 0 /\ g_added = 0 /\ g_last = <<>> /\ g_written = <<>>

CallFindKeywords ==
    /\ k_result = <<>>
    /\ k_result' = <<find_keywords(k_text, k_keywords)>>
    /\ UNCHANGED <<k_text, k_keywords, dedupeVars, recentVars, ingestVars, selectVars, masterVars, uploadVars, linkVars, snippetVars, fridayVars, rollupVars>>

NextKeywords == CallFindKeywords

SpecKeywords == InitKeywords /\ [][NextKeywords]_vars

---------------------------------------------------------------------------
\* Text helpers of the two scrapers.

\* ", ".join(parts) and "".join(parts)
RECURSIVE Join(_, _)
Join(parts, sep) ==
    IF parts = <<>> THEN <<>>
    ELSE IF Len(parts) = 1 THEN parts[1]
    ELSE parts[1] \o sep \o Join(Tail(parts), sep)

\* the code point of a character: Python orders strings by code point
Ord(c) ==
    CASE c = "\t" -> 9
      [] c = "\n" -> 10
      [] c = "\r" -> 13
      [] c = " " -> 32
      [] c = "\"" -> 34
      [] c = "&" -> 38
      [] c = "'" -> 39
      [] c = "+" -> 43
      [] c = "," -> 44
      [] c = "A" -> 65
      [] c = "a" -> 97
      [] c = "b" -> 98
      [] c = FullwidthA -> 65345
      [] OTHER -> 60

\* s < t on str
LexLess(s, t) ==
    \E i \in 1..(Len(s) + 1) :
        /\ \A j \in 1..(i - 1) : j <= Len(t) /\ s[j] = t[j]
        /\ i <= Len(t)
        /\ (i > Len(s) \/ Ord(s[i]) < Ord(t[i]))

\* sorted(items, key=...), keys[i] being the key of items[i]: ascending by
\* key, items of equal key in their original order
sorted_by(items, keys) ==
    LET n == Len(items)
        Rank(i) == 1 + Cardinality({j \in 1..n :
                        LexLess(keys[j], keys[i]) \/ (keys[j] = keys[i] /\ j < i)})
    IN  [r \in 1..n |-> items[CHOOSE i \in 1..n : Rank(i) = r]]

sorted(items) == sorted_by(items, items)

\* list(set(items)): each element once (the order is not specified by
\* Python; the one caller sorts the list)
list_set(items) ==
    DropIndices(items, 1,
                {i \in 1..Len(items) : \E j \in 1..(i - 1) : items[j] = items[i]})

\* re.sub(r"\s+", " ", text)
CollapseRuns(s) ==
    MapSeq(DropIndices(s, 1, {i \in 2..Len(s) : IsSpace(s[i]) /\ IsSpace(s[i - 1])}),
           LAMBDA c : IF IsSpace(c) THEN " " ELSE c)

collapse_whitespace(text) ==
    IF text = <<>> \/ text = None THEN <<>> ELSE strip(CollapseRuns(text))

\* Markup is modelled by tokens: a tag is one element of the sequence, and so
\* is a character reference.
TagTokens == {"<i>", "</i>", "<br>"}

\* html.unescape on one element
unescape_char(c) == IF c = "&amp;" THEN "&" ELSE c

unescape(s) == MapSeq(s, unescape_char)

\* the text nodes of the parsed markup, character references resolved
TextNodes(raw) ==
    MapSeq(split(MapSeq(raw, LAMBDA c : IF c \in TagTokens THEN "<tag>" ELSE c), "<tag>"),
           unescape)

\* BeautifulSoup(raw, "html.parser").get_text(" ", strip=True)
get_text_stripped(raw) ==
    Join(SelectSeq(MapSeq(TextNodes(raw), strip), LAMBDA node : node # <<>>), <<" ">>)

\* BeautifulSoup(raw, "html.parser").get_text()
get_text(raw) == Flatten(TextNodes(raw))

\* s[:n]
Truncate(s, n) == SubSeq(s, 1, IF Len(s) < n THEN Len(s) ELSE n)

MAX_SNIPPET_LEN == 400

MAX_ENTRIES == 300

\* _html_to_text (news_google_scraper.py)
html_to_text(s) ==
    IF s = <<>> \/ s = None THEN <<>>
    ELSE strip(CollapseRuns(MapSeq(unescape(get_text(s)), nfkc_char)))

---------------------------------------------------------------------------
\* URLs.  A URL string is a sequence of tokens: optional whitespace, a scheme
\* token ("https://"), a host token, path tokens ("/feed", a bare "/" for a
\* trailing slash), and after a "?" token the query, whose fields are
\* separated by "&" tokens and split in name and value by "=" tokens.

SchemeTokens == {"https://", "HTTPS://"}

HostTokens == {"a.example", "h.example", "H.EXAMPLE", "www.google.com",
               "news.example", "WWW.News.Example:8080", "notgoogle.com"}

\* str.lower() on a token
lower_tok(t) ==
    CASE t = "HTTPS://" -> "https://"
      [] t = "H.EXAMPLE" -> "h.example"
      [] t = "WWW.News.Example:8080" -> "www.news.example:8080"
      [] OTHER -> t

FirstIndexOf(s, tok) ==
    IF \E i \in 1..Len(s) : s[i] = tok
    THEN CHOOSE i \in 1..Len(s) : s[i] = tok /\ \A j \in 1..(i - 1) : s[j] # tok
    ELSE Len(s) + 1

\* urllib.parse.urlparse(u): scheme (lower-cased by urlparse), netloc, path
\* and query
urlparse(u) ==
    LET hasScheme == u # <<>> /\ u[1] \in SchemeTokens
        body == IF hasScheme THEN Tail(u) ELSE u
        hasNetloc == hasScheme /\ body # <<>> /\ body[1] \in HostTokens
        rest == IF hasNetloc THEN Tail(body) ELSE body
        q == FirstIndexOf(rest, "?")
    IN  [scheme |-> IF hasScheme THEN <<lower_tok(u[1])>> ELSE <<>>,
         netloc |-> IF hasNetloc THEN <<body[1]>> ELSE <<>>,
         path |-> SubSeq(rest, 1, q - 1),
         query |-> SubSeq(rest, q + 1, Len(rest))]

\* _normalize_url (news_rss_scraper.py)
normalize_url(u) ==
    IF u = <<>> \/ u = None THEN <<>>
    ELSE LET p == urlparse(strip(u))
             path == IF p.path # <<>> /\ p.path[Len(p.path)] = "/" /\ p.path # <<"/">>
                     THEN SubSeq(p.path, 1, Len(p.path) - 1)
                     ELSE p.path
         IN  (IF p.scheme = <<>> THEN <<"://">> ELSE MapSeq(p.scheme, lower_tok))
             \o MapSeq(p.netloc, lower_tok)
             \o path
             \o (IF p.query # <<>> THEN <<"?">> \o p.query ELSE <<>>)

\* _domain_of (news_rss_scraper.py); the normalised form of a URL that had no
\* scheme starts with "://", in which urlparse finds no netloc
domain_of(u) == MapSeq(urlparse(u).netloc, lower_tok)

\* _load_hardened_feeds: the rows hold the value of the feed_url column
load_hardened_feeds(rows) ==
    LET vals == SelectSeq(MapSeq(rows, LAMBDA r : strip(OrEmpty(r))),
                          LAMBDA v : v # <<>>)
        urls == {normalize_url(vals[i]) : i \in 1..Len(vals)}
    IN  [urls |-> urls, domains |-> {domain_of(u) : u \in {x \in urls : x # <<>>}}]

\* config/news_playwright_rss_list.csv of the model
HardenedRows == << <<"https://", "h.example", "/rss">>, <<" ">> >>

HARDENED_FEED_URLS == load_hardened_feeds(HardenedRows).urls

HARDENED_DOMAINS == load_hardened_feeds(HardenedRows).domains

\* _is_hardened
is_hardened(target_url) ==
    LET nu == normalize_url(target_url)
    IN  nu \in HARDENED_FEED_URLS \/ domain_of(nu) \in HARDENED_DOMAINS

\* netloc.endswith("google.com") and path.startswith("/url")
EndsWithGoogleCom(netloc) ==
    netloc \in {<<"www.google.com">>, <<"google.com">>, <<"notgoogle.com">>}

StartsWithUrl(path) == path # <<>> /\ path[1] \in {"/url", "/urls"}

\* urllib.parse.unquote_plus on one element
unquote_char(c) == IF c = "+" THEN " " ELSE c

\* parse_qs(query).get(name): the non-blank values given to `name`, in order;
\* a field without "=" or with a blank value is dropped
qs_get(query, name) ==
    LET fields == split(query, "&")
        eq(f) == FirstIndexOf(f, "=")
        kept == SelectSeq(fields, LAMBDA f :
                    /\ eq(f) < Len(f)
                    /\ MapSeq(SubSeq(f, 1, eq(f) - 1), unquote_char) = name)
    IN  MapSeq(kept, LAMBDA f : MapSeq(SubSeq(f, eq(f) + 1, Len(f)), unquote_char))

\* getattr(entry, name, default) of an attribute that holds text
Attr(v, default) == IF v = None THEN default ELSE v

\* _extract_best_link with url= looked up before q=
extract_best_link_urlFirst(entry) ==
    LET link0 == OrEmpty(Attr(entry.link, <<>>))
        link1 == IF link0 # <<>> THEN link0
                 ELSE IF entry.links # <<>> THEN OrEmpty(entry.links[1]) ELSE <<>>
        link == strip(link1)
        pu == urlparse(link)
        q == qs_get(pu.query, <<"q">>)
        url == qs_get(pu.query, <<"url">>)
        real == IF url # <<>> THEN url[1] ELSE IF q # <<>> THEN q[1] ELSE <<>>
    IN  IF link = <<>> THEN <<>>
        ELSE IF EndsWithGoogleCom(pu.netloc) /\ StartsWithUrl(pu.path) /\ real # <<>>
        THEN strip(real)
        ELSE link

\* _extract_best_link (news_google_scraper.py)
extract_best_link(entry) ==
    LET link0 == OrEmpty(Attr(entry.link, <<>>))
        link1 == IF link0 # <<>> THEN link0
                 ELSE IF entry.links # <<>> THEN OrEmpty(entry.links[1]) ELSE <<>>
        link == strip(link1)
        pu == urlparse(link)
        q == qs_get(pu.query, <<"q">>)
        url == qs_get(pu.query, <<"url">>)
        real == IF q # <<>> THEN q[1] ELSE IF url # <<>> THEN url[1] ELSE <<>>
    IN  IF link = <<>> THEN <<>>
        ELSE IF EndsWithGoogleCom(pu.netloc) /\ StartsWithUrl(pu.path) /\ real # <<>>
        THEN strip(real)
        ELSE link

\* domain[4:] when it starts with "www.", and domain.split(":")[0]
strip_www(t) ==
    CASE t = "www.google.com" -> "google.com"
      [] t = "www.news.example:8080" -> "news.example:8080"
      [] OTHER -> t

strip_port(t) == IF t = "news.example:8080" THEN "news.example" ELSE t

\* _extract_source_domain (news_google_scraper.py)
extract_source_domain(url) ==
    IF url = <<>> THEN <<>>
    ELSE MapSeq(MapSeq(MapSeq(urlparse(url).netloc, lower_tok), strip_www), strip_port)

---------------------------------------------------------------------------
\* The entry loop of the two scrapers.

\* An entry of a parsed feed.  An attribute the feed does not give is None
\* (text), [kind |-> "absent"] (a date string) or <<>> (links, content and
\* the *_parsed times, which hold <<[day, minutes]>> when given).
AbsentDate == [kind |-> "absent"]

\* a summary that is no text: BeautifulSoup raises on it
NonString == <<"<NonString>">>

Truthy(datestr) == datestr.kind \notin {"absent", "empty"}

\* strftime("%Y-%m-%d") of a datetime
strftime_ymd(dt) == [ymd |-> dt.day]

\* datetime(*val[:6]).isoformat() of a *_parsed time
isoformat(val) == [kind |-> "string", day |-> val.day, minutes |-> val.minutes,
                   tz |-> "naive"]

\* load_keywords (news_rss_scraper.py): the set of the stripped, lower-cased,
\* non-empty words
load_keywords(rows) ==
    {lower(strip(rows[i])) : i \in 1..Len(rows)} \ {<<>>}

\* the ", ".join(sorted(triggered)) of the emitted article
KeywordsField_iterationOrder(triggered) == Join(triggered, <<",", " ">>)

KeywordsField(triggered) == Join(sorted(triggered), <<",", " ">>)

\* the test `ukey in seen_urls or unique_id in seen_titles`
rss_is_duplicate_urlOnly(ukey, unique_id, urls, titles) == ukey \in urls

rss_is_duplicate(ukey, unique_id, urls, titles) ==
    ukey \in urls \/ unique_id \in titles

\* the body of the try of the entry loop of news_rss_scraper.py: which way
\* the entry leaves it, and the article it appends
RssEntry(entry, today, KEYWORDS, domain, urls, titles) ==
    LET raw_title == Attr(entry.title, <<>>)
        link0 == Attr(entry.link, <<>>)
        date0 == IF entry.published.kind # "absent" THEN entry.published
                 ELSE entry.updated
        raw_snippet == Attr(entry.summary, <<>>)
        title == collapse_whitespace(raw_title)
        link == strip(link0)
        snippet == IF raw_snippet # <<>>
                   THEN Truncate(collapse_whitespace(get_text_stripped(raw_snippet)),
                                 MAX_SNIPPET_LEN)
                   ELSE <<>>
        triggered_title == find_keywords(title, KEYWORDS)
        triggered_snippet == find_keywords(snippet, KEYWORDS)
        triggered == list_set(triggered_title \o triggered_snippet)
        ukey == strip(link)
        ymd == strftime_ymd(dateparser_parse(date0, TRUE))
        unique_id == <<lower(strip(title)), ymd>>
        Leave(outcome) == [outcome |-> outcome, article |-> <<>>,
                           ukey |-> <<>>, unique_id |-> <<>>]
    IN  IF raw_title = <<>> \/ link0 = <<>> \/ ~Truthy(date0) THEN Leave("incomplete")
        ELSE IF ~is_recent("rss", date0, today) THEN Leave("stale")
        ELSE IF raw_snippet = NonString THEN Leave("error")
        ELSE IF triggered = <<>> THEN Leave("nohits")
        ELSE IF rss_is_duplicate(ukey, unique_id, urls, titles) THEN Leave("duplicate")
        ELSE [outcome |-> "emitted",
              article |-> <<[date_published |-> ymd,
                             keywords |-> KeywordsField(triggered),
                             title |-> strip(title),
                             snippet |-> strip(snippet),
                             url |-> strip(link),
                             source_domain |-> domain,
                             in_roundup |-> <<>>]>>,
              ukey |-> <<ukey>>,
              unique_id |-> <<unique_id>>]

\* _raw_date_for_recency (news_google_scraper.py)
raw_date_for_recency(entry) ==
    IF Truthy(entry.published) THEN entry.published
    ELSE IF Truthy(entry.updated) THEN entry.updated
    ELSE IF entry.published_parsed # <<>> THEN isoformat(entry.published_parsed[1])
    ELSE IF entry.updated_parsed # <<>> THEN isoformat(entry.updated_parsed[1])
    ELSE AbsentDate

\* _iso_date (news_google_scraper.py): <<the date>>, or <<>> for None
iso_date(entry) ==
    LET Parses(f) == Truthy(f) /\ "raised" \notin DOMAIN dateparser_parse(f, FALSE)
    IN  IF Parses(entry.published)
        THEN <<strftime_ymd(dateparser_parse(entry.published, FALSE))>>
        ELSE IF Parses(entry.updated)
        THEN <<strftime_ymd(dateparser_parse(entry.updated, FALSE))>>
        ELSE IF entry.published_parsed # <<>>
        THEN <<strftime_ymd(entry.published_parsed[1])>>
        ELSE IF entry.updated_parsed # <<>>
        THEN <<strftime_ymd(entry.updated_parsed[1])>>
        ELSE <<>>

\* _extract_snippet (news_google_scraper.py)
extract_snippet(entry) ==
    IF entry.content # <<>> THEN Truncate(html_to_text(entry.content[1]), MAX_SNIPPET_LEN)
    ELSE IF OrEmpty(entry.summary) # <<>>
    THEN Truncate(html_to_text(entry.summary), MAX_SNIPPET_LEN)
    ELSE IF OrEmpty(entry.description) # <<>>
    THEN Truncate(html_to_text(entry.description), MAX_SNIPPET_LEN)
    ELSE <<>>

\* the tests `link in seen_urls` and `key_title_date in seen_title_date`
google_is_duplicate(link, title, date_iso, urls, titles) ==
    link \in urls \/ <<lower(title), date_iso>> \in titles

\* the body of the try of the entry loop of news_google_scraper.py
GoogleEntry(entry, today, keywords, urls, titles) ==
    LET raw_date == raw_date_for_recency(entry)
        date_iso == iso_date(entry)
        title_raw == OrEmpty(Attr(entry.title, <<>>))
        title == strip(unescape(title_raw))
        link == extract_best_link(entry)
        snippet == extract_snippet(entry)
        key_title_date == <<lower(title), date_iso[1]>>
        Leave(outcome) == [outcome |-> outcome, article |-> <<>>,
                           ukey |-> <<>>, unique_id |-> <<>>]
    IN  IF ~Truthy(raw_date) \/ ~is_recent("google", raw_date, today) THEN Leave("stale")
        ELSE IF date_iso = <<>> THEN Leave("nodate")
        ELSE IF title = <<>> \/ link = <<>> THEN Leave("incomplete")
        ELSE IF entry.content = <<NonString>> THEN Leave("error")
        ELSE IF google_is_duplicate(link, title, date_iso[1], urls, titles)
        THEN Leave("duplicate")
        ELSE [outcome |-> "emitted",
              article |-> <<[keywords |-> keywords,
                             title |-> title,
                             snippet |-> snippet,
                             date_published |-> date_iso[1],
                             source_domain |-> extract_source_domain(link),
                             url |-> link,
                             in_roundup |-> <<>>]>>,
              ukey |-> <<link>>,
              unique_id |-> <<key_title_date>>]

---------------------------------------------------------------------------
\* Fetching and parsing one feed.

\* What the network answers to one feed: requests.get (a body, HTTP 403,
\* another HTTP error, or an exception), cloudscraper (a body or a failure)
\* and Playwright (a body, a response that is not ok, or an exception).
Networks ==
    [requests : {"ok", "http403", "httpError", "exception"},
     cloudscraper : {"ok", "failed"},
     playwright : {"ok", "notok", "exception"}]

Fetched == [content |-> TRUE, error |-> <<>>]

Failed(msg) == [content |-> FALSE, error |-> <<msg>>]

\* the calls the fetch makes, in order, each with its answer
Call(tier, answer) == [tier |-> tier, answer |-> answer]

\* the calls of fetch_feed_with_timeout with the hardened test made after the
\* plain request has failed
rss_calls_requestsFirst(feed_url, net) ==
    IF net.requests = "ok" THEN <<Call("requests", net.requests)>>
    ELSE IF is_hardened(feed_url)
    THEN <<Call("requests", net.requests), Call("playwright", net.playwright)>>
    ELSE IF net.requests = "http403"
    THEN <<Call("requests", net.requests), Call("cloudscraper", net.cloudscraper)>>
    ELSE <<Call("requests", net.requests)>>

\* the calls of fetch_feed_with_timeout with cloudscraper tried after every
\* HTTP error
rss_calls_anyHttpError(feed_url, net) ==
    IF is_hardened(feed_url) THEN <<Call("playwright", net.playwright)>>
    ELSE IF net.requests \in {"http403", "httpError"}
    THEN <<Call("requests", net.requests), Call("cloudscraper", net.cloudscraper)>>
    ELSE <<Call("requests", net.requests)>>

\* the calls of fetch_feed_bytes with a failed request made once more
google_calls_retry(feed_url, net) ==
    IF net.requests = "ok" THEN <<Call("requests", net.requests)>>
    ELSE <<Call("requests", net.requests), Call("requests", net.requests)>>

\* the calls of fetch_feed_with_timeout (news_rss_scraper.py)
rss_calls(feed_url, net) ==
    IF is_hardened(feed_url) THEN <<Call("playwright", net.playwright)>>
    ELSE IF net.requests = "http403"
    THEN <<Call("requests", net.requests), Call("cloudscraper", net.cloudscraper)>>
    ELSE <<Call("requests", net.requests)>>

\* the calls of fetch_feed_bytes (news_google_scraper.py)
google_calls(feed_url, net) == <<Call("requests", net.requests)>>

\* fetch_with_playwright
fetch_with_playwright(feed_url, net) ==
    CASE net.playwright = "ok" -> Fetched
      [] net.playwright = "notok" -> Failed("Playwright request failed")
      [] OTHER -> Failed("Playwright failed")

\* fetch_feed_with_timeout (news_rss_scraper.py)
fetch_feed_with_timeout_ignoreHttpError(feed_url, net) ==
    IF is_hardened(feed_url) THEN fetch_with_playwright(feed_url, net)
    ELSE CASE net.requests \in {"ok", "httpError"} -> Fetched
           [] net.requests = "http403" ->
                IF net.cloudscraper = "ok" THEN Fetched
                ELSE Failed("Cloudscraper failed")
           [] OTHER -> Failed("Requests exception")

fetch_feed_with_timeout(feed_url, net) ==
    IF is_hardened(feed_url) THEN fetch_with_playwright(feed_url, net)
    ELSE CASE net.requests = "ok" -> Fetched
           [] net.requests = "http403" ->
                IF net.cloudscraper = "ok" THEN Fetched
                ELSE Failed("Cloudscraper failed")
           [] net.requests = "httpError" -> Failed("Requests failed")
           [] OTHER -> Failed("Requests exception")

\* fetch_feed_bytes (news_google_scraper.py)
fetch_feed_bytes(feed_url, net) ==
    CASE net.requests = "ok" -> Fetched
      [] net.requests \in {"http403", "httpError"} -> Failed("Requests failed (HTTP)")
      [] OTHER -> Failed("Requests exception")

\* What feedparser.parse makes of the body: the number of entries and bozo,
\* with the bozo_exception that goes with it.
ParseResults(maxCount) ==
    [count : 0..maxCount, bozo : {0, 1}]

bozo_exception(d) == IF d.bozo = 1 THEN <<"SAXParseException">> ELSE None

\* str(x)
str(x) == IF x = None THEN <<"None">> ELSE x

---------------------------------------------------------------------------
\* The configuration of the model.

\* the `word` column of config/news_rss_keywords.csv
KeywordRows == << <<" ", "A">>, <<"b">>, <<" ">>, <<"a">> >>

\* the rows of config/news_rss_availability.csv
RssRowStandard == [feed_url |-> <<"https://", "a.example", "/feed">>,
                   rss |-> <<"y", "e", "s">>,
                   domain |-> <<"a.example">>]

RssRowHardened == [feed_url |-> <<" ", "HTTPS://", "H.EXAMPLE", "/other", "/">>,
                   rss |-> <<"Y", "e", "s", " ">>,
                   domain |-> <<"h.example", " ">>]

RssRowOff == [feed_url |-> <<"https://", "a.example", "/off">>,
              rss |-> <<"n", "o">>,
              domain |-> <<"a.example">>]

\* the files the run may find
RssConfigs == {<<RssRowOff>>,
               <<RssRowStandard, RssRowOff, RssRowHardened>>,
               <<RssRowHardened, RssRowStandard>>}

\* the feeds list of main (news_rss_scraper.py)
rss_feeds(rows) ==
    LET read == MapSeq(rows, LAMBDA row :
                    [feed_url |-> strip(row.feed_url),
                     rss_status |-> lower(strip(row.rss)),
                     domain |-> strip(row.domain)])
        kept == SelectSeq(read, LAMBDA r :
                    r.rss_status = <<"y", "e", "s">> /\ r.feed_url # <<>>)
    IN  MapSeq(kept, LAMBDA r : [domain |-> r.domain, feed_url |-> r.feed_url])

\* the rows of config/news_google_rss_list.csv
GoogleRowA == [feed_url |-> <<"https://", "www.google.com", "/alerts", "/a">>,
               keywords |-> <<"a">>, source |-> <<>>]

GoogleRowB == [feed_url |-> <<"https://", "www.google.com", "/alerts", "/b", " ">>,
               keywords |-> <<" ", "b">>, source |-> <<>>]

GoogleRowBlank == [feed_url |-> <<" ">>, keywords |-> <<"b">>, source |-> <<>>]

\* the files the run may find
GoogleConfigs == {<<GoogleRowBlank>>,
                  <<GoogleRowA, GoogleRowBlank, GoogleRowB>>,
                  <<GoogleRowB, GoogleRowA>>}

\* the feeds list of main (news_google_scraper.py)
google_feeds(rows) ==
    LET read == MapSeq(rows, LAMBDA row :
                    [feed_url |-> strip(OrEmpty(row.feed_url)),
                     keywords |-> strip(OrEmpty(row.keywords)),
                     source |-> strip(OrEmpty(row.source))])
    IN  SelectSeq(read, LAMBDA r : r.feed_url # <<>>)

---------------------------------------------------------------------------
\* The entries the feeds of the model give.

RunDay == 738000

DayString(day, minutes, tz) ==
    [kind |-> "string", day |-> day, minutes |-> minutes, tz |-> tz]

Entry(title, link, published, summary) ==
    [title |-> title, link |-> link, links |-> <<>>,
     published |-> published, updated |-> AbsentDate,
     published_parsed |-> <<>>, updated_parsed |-> <<>>,
     summary |-> summary, content |-> <<>>, description |-> None]

\* both words in the title, one of them again in the snippet
RssBoth == Entry(<<"b", " ", " ", "A">>, <<"u1">>, DayString(RunDay, 0, "naive"),
                 <<"<i>", "a", "</i>">>)

\* the title and day of RssBoth under another URL
RssSameTitle == Entry(<<"b", " ", "a">>, <<"u2">>, DayString(RunDay, 1410, "-05:00"),
                      <<"b">>)

\* the URL of RssBoth under another title and day
RssSameUrl == Entry(<<"b">>, <<" ", "u1">>, DayString(RunDay - 1, 0, "naive"), None)

RssOld == Entry(<<"a">>, <<"u3">>, DayString(RunDay - 2, 0, "naive"), None)

RssNoHit == Entry(<<"a", "b">>, <<"u3">>, DayString(RunDay, 0, "naive"), <<"<br>">>)

RssUpdatedOnly ==
    [Entry(<<"a">>, <<"u3">>, AbsentDate, None)
        EXCEPT !.updated = DayString(RunDay + 1, 0, "+05:30")]

RssNoLink == Entry(<<"a">>, None, DayString(RunDay, 0, "naive"), None)

RssRaises == Entry(<<"a">>, <<"u4">>, DayString(RunDay, 0, "naive"), NonString)

RssEntryPool == {RssBoth, RssSameTitle, RssSameUrl, RssOld, RssNoHit,
                 RssUpdatedOnly, RssNoLink, RssRaises}

\* a Google redirect that carries its target in q=
GoogleRedirect ==
    [Entry(<<"A", " ", "&amp;", " ", "b">>,
           <<"https://", "www.google.com", "/url", "?", "r", "=", "x", "&",
             "q", "=", "https://", "news.example", "/a", "&", "s", "=", "D">>,
           DayString(RunDay, 0, "naive"), None)
        EXCEPT !.content = << <<"<i>", "a", "</i>", " ", "b">> >>]

\* the title and day of GoogleRedirect under another URL
GoogleSameTitle ==
    Entry(<<"a", " ", "&", " ", "b", " ">>, <<"https://", "news.example", "/b">>,
          DayString(RunDay, 1410, "-05:00"), <<"a">>)

\* the target of GoogleRedirect as a direct link, given in links only
GoogleSameUrl ==
    [Entry(<<"b">>, None, DayString(RunDay - 1, 0, "naive"), None)
        EXCEPT !.links = << <<" ", "https://", "news.example", "/a">> >>]

GoogleOld == Entry(<<"a">>, <<"https://", "news.example", "/c">>,
                   DayString(RunDay - 2, 0, "naive"), None)

GoogleParsedOnly ==
    [Entry(<<"b">>, <<"https://", "WWW.News.Example:8080", "/c">>, AbsentDate, None)
        EXCEPT !.published_parsed = <<[day |-> RunDay + 1, minutes |-> 0]>>]

GoogleNoTitle == Entry(<<" ">>, <<"https://", "news.example", "/d">>,
                       DayString(RunDay, 0, "naive"), None)

GoogleRaises ==
    [Entry(<<"a">>, <<"https://", "news.example", "/e">>,
           DayString(RunDay, 0, "naive"), None)
        EXCEPT !.content = <<NonString>>]

GoogleEntryPool == {GoogleRedirect, GoogleSameTitle, GoogleSameUrl, GoogleOld,
                    GoogleParsedOnly, GoogleNoTitle, GoogleRaises}

\* the orders in which a set can be iterated
Orderings(S) ==
    {p \in [1..Cardinality(S) -> S] : \A i, j \in 1..Cardinality(S) : p[i] = p[j] => i = j}

---------------------------------------------------------------------------
\* main of news_rss_scraper.py and main of news_google_scraper.py

InitIngest ==
    /\ i_script \in {"rss", "google"}
    /\ IF i_script = "rss"
       THEN \E rows \in RssConfigs : i_feeds = rss_feeds(rows)
       ELSE \E rows \in GoogleConfigs : i_feeds = google_feeds(rows)
    /\ i_today = RunDay
    /\ i_keywords \in IF i_script = "rss" THEN Orderings(load_keywords(KeywordRows))
                      ELSE {<<>>}
    /\ i_pc = "fetch" /\ i_idx = 1 /\ i_count = 0 /\ i_k = 0 /\ i_taken = 0 /\ i_tiers = <<>>
    /\ i_parsed = <<>>
    /\ i_last = <<>>
    /\ all_articles = <<>> /\ seen_urls = {} /\ seen_titles = {}
    /\ error_log = <<>> /\ successful_feeds = 0
    /\ output_csv = <<>> /\ output_error_log = <<>>
    \* the other components stay idle
    /\ csv_files = <<>> /\ out_file = <<>> /\ out_before = <<>> /\ pc = "idle"
    /\ fileIdx = 0 /\ rowIdx = 0 /\ seen = {} /\ unique_rows = <<>>
    /\ total_rows = 0 /\ result = <<>>
    /\ r_variant = "idle" /\ r_today = 0 /\ r_pubdate = <<>> /\ r_result = <<>>
    /\ k_text = <<>> /\ k_keywords = <<>> /\ k_result = <<>>
    /\ s_script = "idle" /\ s_folder = <<>> /\ s_today = 0 /\ s_cli = <<>>
    /\ s_window_days = 0 /\ s_pc = "idle" /\ s_entries = <<>> /\ s_start = <<>>
    /\ s_selected = <<>>
    /\ m_script = "idle" /\ m_files = <<>> /\ m_out = <<>> /\ m_pc = "idle"
    /\ m_idx = 0 /\ m_acc = <<>> /\ m_result = <<>>
    /\ u_args = <<>> /\ u_folder = {} /\ u_next_id = 0 /\ u_i = 0 /\ u_pc = "idle"
    /\ u_existing = <<>> /\ u_k = 0 /\ u_last = "none"
    /\ l_entry = <<>> /\ l_pc = "idle" /\ l_result = <<>>
    /\ n_entry = <<>> /\ n_pc = "idle" /\ n_result = <<>>
    /\ f_today = 0 /\ f_pc = "idle" /\ f_result = <<>>
    /\ g_folder = <<>> /\ g_runs = 0 /\ g_added = 0 /\ g_last = <<>> /\ g_written = <<>>

Min(a, b) == IF a < b THEN a ELSE b

otherVars == <<dedupeVars, recentVars, keywordVars, selectVars, masterVars, uploadVars, linkVars, snippetVars, fridayVars, rollupVars>>

\* `continue` of the feed loop
SkipFeed == i_idx' = i_idx + 1 /\ i_pc' = "fetch" /\ i_count' = 0 /\ i_k' = 0

\* fetch_feed_with_timeout and the test of fetch_error
RssFetchFeed ==
    /\ i_script = "rss" /\ i_pc = "fetch" /\ i_idx <= Len(i_feeds)
    /\ \E net \in Networks :
         LET feed_url == i_feeds[i_idx].feed_url
             r == fetch_feed_with_timeout(feed_url, net)
         IN  /\ i_tiers' = rss_calls(feed_url, net)
             /\ IF r.error # <<>>
                THEN /\ error_log' = Append(error_log,
                           [feed_url |-> feed_url, error_type |-> "fetch",
                            error_message |-> r.error])
                     /\ SkipFeed
                ELSE /\ i_pc' = "parse"
                     /\ UNCHANGED <<error_log, i_idx, i_count, i_k>>
    /\ UNCHANGED <<i_script, i_feeds, i_today, i_parsed, i_keywords, i_taken, i_last,
                   all_articles, seen_urls, seen_titles, successful_feeds,
                   output_csv, output_error_log, otherVars>>

\* feedparser.parse and the tests of entries_count and bozo; a raise goes to
\* the except of the feed
RssParseFeed ==
    /\ i_script = "rss" /\ i_pc = "parse"
    /\ LET feed_url == i_feeds[i_idx].feed_url
       IN  \/ /\ error_log' = Append(error_log,
                     [feed_url |-> feed_url, error_type |-> "exception",
                      error_message |-> <<"str(e)">>])
              /\ SkipFeed
              /\ i_parsed' = <<>>
              /\ UNCHANGED <<successful_feeds, i_taken>>
           \/ \E d \in ParseResults(MaxRunEntries - i_taken) :
                /\ i_parsed' = <<d>>
                /\ IF d.count = 0
                   THEN /\ error_log' = Append(error_log,
                               [feed_url |-> feed_url, error_type |-> "parse",
                                error_message |-> str(bozo_exception(d))])
                        /\ SkipFeed
                        /\ UNCHANGED <<successful_feeds, i_taken>>
                   ELSE /\ successful_feeds' =
                               IF d.bozo # 0 THEN successful_feeds
                               ELSE successful_feeds + 1
                        /\ i_pc' = "entries" /\ i_count' = d.count /\ i_k' = 0
                        /\ i_taken' = i_taken + d.count
                        /\ UNCHANGED <<error_log, i_idx>>
    /\ UNCHANGED <<i_script, i_feeds, i_today, i_tiers, i_keywords, i_last,
                   all_articles, seen_urls, seen_titles,
                   output_csv, output_error_log, otherVars>>

\* the entry loop with the except of the entry writing to the error log
RssProcessEntry_logsError ==
    /\ i_script = "rss" /\ i_pc = "entries" /\ i_k < Min(i_count, MAX_ENTRIES)
    /\ \E entry \in RssEntryPool :
         LET r == RssEntry(entry, i_today, i_keywords, i_feeds[i_idx].domain,
                           seen_urls, seen_titles)
         IN  /\ all_articles' = all_articles \o r.article
             /\ seen_urls' = seen_urls \cup Range(r.ukey)
             /\ seen_titles' = seen_titles \cup Range(r.unique_id)
             /\ i_last' = <<[entry |-> entry, outcome |-> r.outcome]>>
             /\ error_log' =
                    IF r.outcome = "error"
                    THEN Append(error_log,
                                [feed_url |-> i_feeds[i_idx].feed_url,
                                 error_type |-> "exception",
                                 error_message |-> <<"str(e)">>])
                    ELSE error_log
    /\ i_k' = i_k + 1
    /\ UNCHANGED <<i_script, i_feeds, i_today, i_tiers, i_parsed, i_keywords, i_pc, i_idx, i_count,
                   i_taken, successful_feeds,
                   output_csv, output_error_log, otherVars>>

\* one turn of `for entry in d.entries[:MAX_ENTRIES]`
RssProcessEntry ==
    /\ i_script = "rss" /\ i_pc = "entries" /\ i_k < Min(i_count, MAX_ENTRIES)
    /\ \E entry \in RssEntryPool :
         LET r == RssEntry(entry, i_today, i_keywords, i_feeds[i_idx].domain,
                           seen_urls, seen_titles)
         IN  /\ all_articles' = all_articles \o r.article
             /\ seen_urls' = seen_urls \cup Range(r.ukey)
             /\ seen_titles' = seen_titles \cup Range(r.unique_id)
             /\ i_last' = <<[entry |-> entry, outcome |-> r.outcome]>>
    /\ i_k' = i_k + 1
    /\ UNCHANGED <<i_script, i_feeds, i_today, i_tiers, i_parsed, i_keywords, i_pc, i_idx, i_count,
                   i_taken, error_log, successful_feeds,
                   output_csv, output_error_log, otherVars>>

\* the end of the entry loop, time.sleep and the next feed
RssNextFeed ==
    /\ i_script = "rss" /\ i_pc = "entries" /\ i_k >= Min(i_count, MAX_ENTRIES)
    /\ SkipFeed
    /\ UNCHANGED <<i_script, i_feeds, i_today, i_tiers, i_parsed, i_keywords, i_taken, i_last,
                   all_articles, seen_urls, seen_titles, error_log,
                   successful_feeds, output_csv, output_error_log, otherVars>>

\* after the feed loop: the articles sorted by title, and the error log
RssWriteOutput ==
    /\ i_script = "rss" /\ i_pc = "fetch" /\ i_idx > Len(i_feeds)
    /\ output_csv' = sorted_by(all_articles,
                               MapSeq(all_articles, LAMBDA x : lower(strip(x.title))))
    /\ output_error_log' = <<error_log>>
    /\ i_pc' = "finished"
    /\ UNCHANGED <<i_script, i_feeds, i_today, i_tiers, i_parsed, i_keywords, i_idx, i_count, i_k,
                   i_taken, i_last, all_articles, seen_urls, seen_titles,
                   error_log, successful_feeds, otherVars>>

\* fetch_feed_bytes and the test of fetch_err
GoogleFetchFeed ==
    /\ i_script = "google" /\ i_pc = "fetch" /\ i_idx <= Len(i_feeds)
    /\ \E net \in Networks :
         LET item == i_feeds[i_idx]
             r == fetch_feed_bytes(item.feed_url, net)
         IN  /\ i_tiers' = google_calls(item.feed_url, net)
             /\ IF r.error # <<>>
                THEN /\ error_log' = Append(error_log,
                           [feed_url |-> item.feed_url, keywords |-> item.keywords,
                            error_type |-> "fetch", error_message |-> r.error])
                     /\ SkipFeed
                ELSE /\ i_pc' = "parse"
                     /\ UNCHANGED <<error_log, i_idx, i_count, i_k>>
    /\ UNCHANGED <<i_script, i_feeds, i_today, i_parsed, i_keywords, i_taken, i_last,
                   all_articles, seen_urls, seen_titles, successful_feeds,
                   output_csv, output_error_log, otherVars>>

\* feedparser.parse and the test of entries
GoogleParseFeed ==
    /\ i_script = "google" /\ i_pc = "parse"
    /\ \E d \in ParseResults(MaxRunEntries - i_taken) :
         LET item == i_feeds[i_idx]
         IN  /\ i_parsed' = <<d>>
             /\ IF d.count = 0
                THEN /\ error_log' =
                           IF bozo_exception(d) # None
                           THEN Append(error_log,
                                   [feed_url |-> item.feed_url, keywords |-> item.keywords,
                                    error_type |-> "parse",
                                    error_message |-> str(bozo_exception(d))])
                           ELSE error_log
                     /\ SkipFeed
                     /\ UNCHANGED <<successful_feeds, i_taken>>
                ELSE /\ successful_feeds' = successful_feeds + 1
                     /\ i_pc' = "entries" /\ i_count' = d.count /\ i_k' = 0
                     /\ i_taken' = i_taken + d.count
                     /\ UNCHANGED <<error_log, i_idx>>
    /\ UNCHANGED <<i_script, i_feeds, i_today, i_tiers, i_keywords, i_last,
                   all_articles, seen_urls, seen_titles,
                   output_csv, output_error_log, otherVars>>

\* one turn of `for entry in entries[:MAX_ENTRIES]`
GoogleProcessEntry ==
    /\ i_script = "google" /\ i_pc = "entries" /\ i_k < Min(i_count, MAX_ENTRIES)
    /\ \E entry \in GoogleEntryPool :
         LET r == GoogleEntry(entry, i_today, i_feeds[i_idx].keywords,
                              seen_urls, seen_titles)
         IN  /\ all_articles' = all_articles \o r.article
             /\ seen_urls' = seen_urls \cup Range(r.ukey)
             /\ seen_titles' = seen_titles \cup Range(r.unique_id)
             /\ i_last' = <<[entry |-> entry, outcome |-> r.outcome]>>
    /\ i_k' = i_k + 1
    /\ UNCHANGED <<i_script, i_feeds, i_today, i_tiers, i_parsed, i_keywords, i_pc, i_idx, i_count,
                   i_taken, error_log, successful_feeds,
                   output_csv, output_error_log, otherVars>>

\* the end of the entry loop, time.sleep and the next feed
GoogleNextFeed ==
    /\ i_script = "google" /\ i_pc = "entries" /\ i_k >= Min(i_count, MAX_ENTRIES)
    /\ SkipFeed
    /\ UNCHANGED <<i_script, i_feeds, i_today, i_tiers, i_parsed, i_keywords, i_taken, i_last,
                   all_articles, seen_urls, seen_titles, error_log,
                   successful_feeds, output_csv, output_error_log, otherVars>>

\* after the feed loop: all_articles.sort by title, then the two files
GoogleWriteOutput ==
    /\ i_script = "google" /\ i_pc = "fetch" /\ i_idx > Len(i_feeds)
    /\ all_articles' = sorted_by(all_articles,
                                 MapSeq(all_articles, LAMBDA x : lower(x.title)))
    /\ output_csv' = all_articles'
    /\ output_error_log' = <<error_log>>
    /\ i_pc' = "finished"
    /\ UNCHANGED <<i_script, i_feeds, i_today, i_tiers, i_parsed, i_keywords, i_idx, i_count, i_k,
                   i_taken, i_last, seen_urls, seen_titles,
                   error_log, successful_feeds, otherVars>>

NextIngest ==
    \/ RssFetchFeed \/ RssParseFeed \/ RssProcessEntry \/ RssNextFeed
    \/ RssWriteOutput
    \/ GoogleFetchFeed \/ GoogleParseFeed \/ GoogleProcessEntry \/ GoogleNextFeed
    \/ GoogleWriteOutput

SpecIngest == InitIngest /\ [][NextIngest]_vars

---------------------------------------------------------------------------
\* The run of news_rss_scraper.py over feeds that also give an entry whose
\* title is white space only.

\* a title of white space only, the word in the summary
RssBlankTitle == Entry(<<" ", " ">>, <<"u5">>, DayString(RunDay, 0, "naive"), <<"a">>)

RssBlankPool == RssEntryPool \cup {RssBlankTitle}

InitRssBlank == InitIngest /\ i_script = "rss"

\* one turn of `for entry in d.entries[:MAX_ENTRIES]` on an entry of the
\* wider pool
RssProcessAnyEntry ==
    /\ i_script = "rss" /\ i_pc = "entries" /\ i_k < Min(i_count, MAX_ENTRIES)
    /\ \E entry \in RssBlankPool :
         LET r == RssEntry(entry, i_today, i_keywords, i_feeds[i_idx].domain,
                           seen_urls, seen_titles)
         IN  /\ all_articles' = all_articles \o r.article
             /\ seen_urls' = seen_urls \cup Range(r.ukey)
             /\ seen_titles' = seen_titles \cup Range(r.unique_id)
             /\ i_last' = <<[entry |-> entry, outcome |-> r.outcome]>>
    /\ i_k' = i_k + 1
    /\ UNCHANGED <<i_script, i_feeds, i_today, i_tiers, i_parsed, i_keywords, i_pc, i_idx, i_count,
                   i_taken, error_log, successful_feeds,
                   output_csv, output_error_log, otherVars>>

NextRssBlank ==
    \/ RssFetchFeed \/ RssParseFeed \/ RssProcessAnyEntry \/ RssNextFeed
    \/ RssWriteOutput

SpecRssBlank == InitRssBlank /\ [][NextRssBlank]_vars

---------------------------------------------------------------------------
\* File names and the listing of dated files.
\*
\* A file name is a sequence of tokens: a stem ("rss_articles"), "_", the
\* text between the stem and the extension, and an extension (".csv").  The
\* tokens of the model are such that comparing two names token by token
\* orders them as Python orders the strings.

\* the texts that match \d{4}-\d{2}-\d{2}
DateShaped == {"2024-05-31", "2024-06-01", "2024-06-07", "2024-06-08",
               "2024-06-09", "2024-13-45"}

ValueError == [raised |-> "ValueError"]

\* datetime.strptime(s, "%Y-%m-%d"): the day, as date.toordinal() gives it, or
\* a raise
parse_date_str(s) ==
    CASE s = "2024-05-31" -> [day |-> 739037]
      [] s = "2024-06-01" -> [day |-> 739038]
      [] s = "2024-06-07" -> [day |-> 739044]
      [] s = "2024-06-08" -> [day |-> 739045]
      [] s = "2024-06-09" -> [day |-> 739046]
      [] OTHER -> ValueError

\* date.weekday(): Monday is 0; ordinal 1 is a Monday
weekday(day) == (day - 1) % 7

\* the place of a token in the order of the strings
TokenOrd(t) ==
    CASE t = ".bak" -> 1
      [] t = ".csv" -> 2
      [] t = ".json" -> 3
      [] t = "2024-05-31" -> 4
      [] t = "2024-06-01" -> 5
      [] t = "2024-06-07" -> 6
      [] t = "2024-06-08" -> 7
      [] t = "2024-06-09" -> 8
      [] t = "2024-13-45" -> 9
      [] t = "_" -> 10
      [] t = "_to_" -> 11
      [] t = "candidate_articles" -> 12
      [] t = "deduped_candidate_articles" -> 13
      [] t = "google_alerts_articles" -> 14
      [] t = "latest" -> 15
      [] t = "old" -> 16
      [] OTHER -> 17

\* a < b on file names
NameLess(a, b) ==
    \E i \in 1..(Len(a) + 1) :
        /\ \A j \in 1..(i - 1) : j <= Len(b) /\ a[j] = b[j]
        /\ i <= Len(b)
        /\ (i > Len(a) \/ TokenOrd(a[i]) < TokenOrd(b[i]))

\* picks.sort(key=lambda x: (x[0], x[1].name)): ascending by date, then by
\* name, picks of equal key in their original order
sort_picks(picks) ==
    LET n == Len(picks)
        Before(a, b) == a.dt < b.dt \/ (a.dt = b.dt /\ NameLess(a.name, b.name))
        Same(a, b) == a.dt = b.dt /\ a.name = b.name
        Rank(i) == 1 + Cardinality({j \in 1..n :
                        Before(picks[j], picks[i]) \/ (Same(picks[j], picks[i]) /\ j < i)})
    IN  [r \in 1..n |-> picks[CHOOSE i \in 1..n : Rank(i) = r]]

\* folder.glob(f"{stem}_*{ext}")
glob(name, stem, ext) ==
    Len(name) >= 3 /\ name[1] = stem /\ name[2] = "_" /\ name[Len(name)] = ext

\* the places where `{stem}_(\d{4}-\d{2}-\d{2})\.csv` matches in the name;
\* the pattern ignores case, and no name of the model differs in case
Matches(name, stem, exts) ==
    {i \in 1..(Len(name) - 3) :
        /\ name[i] = stem /\ name[i + 1] = "_"
        /\ name[i + 2] \in DateShaped
        /\ name[i + 3] \in exts}

Least(S) == CHOOSE i \in S : \A j \in S : i <= j

\* DATE_RE.search(name) and DATE_RE.fullmatch(name): <<group(1)>>, or <<>>
\* for no match
re_search(name, stem, exts) ==
    IF Matches(name, stem, exts) = {} THEN <<>>
    ELSE <<name[Least(Matches(name, stem, exts)) + 2]>>

\* a search with the pattern ending in $
re_search_to_end(name, stem, exts) ==
    LET at_end == {i \in Matches(name, stem, exts) : i + 3 = Len(name)}
    IN  IF at_end = {} THEN <<>> ELSE <<name[Least(at_end) + 2]>>

re_fullmatch(name, stem, exts) ==
    IF Len(name) = 4 /\ 1 \in Matches(name, stem, exts) THEN <<name[3]>> ELSE <<>>

\* the loop of a listing over the names a glob or a folder query gives, in
\* the order it gives them: the names the pattern matches, each with its parsed
\* date; the first date that does not parse raises ValueError
Parsed(groups) ==
    LET matched == SelectSeq(groups, LAMBDA g : g.group # <<>>)
    IN  IF \E i \in 1..Len(matched) : "raised" \in DOMAIN parse_date_str(matched[i].group[1])
        THEN [raised |-> TRUE, picks |-> <<>>]
        ELSE [raised |-> FALSE,
              picks |-> MapSeq(matched, LAMBDA g :
                            [dt |-> parse_date_str(g.group[1]).day,
                             name |-> g.file.name, id |-> g.file.id])]

Sorted(listing) == [raised |-> listing.raised, picks |-> sort_picks(listing.picks)]

\* list_csv_files_with_dates (local_dedupe_rss.py)
rss_list_csv_files_with_dates(folder) ==
    Sorted(Parsed(MapSeq(SelectSeq(folder, LAMBDA f : glob(f.name, "rss_articles", ".csv")),
                         LAMBDA f : [file |-> f,
                                     group |-> re_search(f.name, "rss_articles", {".csv"})])))

\* list_csv_files_with_dates (dedupe_google_weekly.py)
weekly_list_csv_files_with_dates(folder) ==
    Sorted(Parsed(MapSeq(SelectSeq(folder, LAMBDA f :
                             glob(f.name, "google_alerts_articles", ".csv")),
                         LAMBDA f : [file |-> f,
                                     group |-> re_fullmatch(f.name, "google_alerts_articles",
                                                            {".csv"})])))

\* most_recent_friday with isoweekday (Monday is 1) in the place of weekday
most_recent_friday_isoweekday(on_or_before) ==
    on_or_before - ((weekday(on_or_before) + 1 - 4) % 7)

\* most_recent_friday
most_recent_friday(on_or_before) == on_or_before - ((weekday(on_or_before) - 4) % 7)

\* filter_files_for_week (dedupe_google_weekly.py), one day short at the start
weekly_filter_files_for_week_short(entries, week_ending, window_days) ==
    IF window_days <= 0
    THEN [raised |-> TRUE, picks |-> <<>>]
    ELSE [raised |-> FALSE,
          picks |-> SelectSeq(entries, LAMBDA e :
                        week_ending - (window_days - 1) < e.dt /\ e.dt <= week_ending)]

\* filter_files_for_week (dedupe_google_weekly.py)
weekly_filter_files_for_week(entries, week_ending, window_days) ==
    IF window_days <= 0
    THEN [raised |-> TRUE, picks |-> <<>>]
    ELSE LET start_date == week_ending - (window_days - 1)
         IN  [raised |-> FALSE,
              picks |-> SelectSeq(entries, LAMBDA e :
                            start_date <= e.dt /\ e.dt <= week_ending)]

\* compute_week_window (fetch_week_from_drive.py, fetch_google_week_from_drive.py)
compute_week_window(today) ==
    LET end_date == most_recent_friday(today)
    IN  [start_date |-> end_date - 6, end_date |-> end_date]

\* list_candidate_files: the files of the Drive folder whose whole name
\* matches, in the order Drive lists them
list_candidate_files(folder, pattern_stem) ==
    SelectSeq(folder, LAMBDA f : re_fullmatch(f.name, pattern_stem, {".csv"}) # <<>>)

\* filter_files_for_week (fetch_week_from_drive.py)
drive_filter_files_for_week(candidates, pattern_stem, start_date, end_date) ==
    LET parsed == Parsed(MapSeq(candidates, LAMBDA f :
                      [file |-> f, group |-> re_fullmatch(f.name, pattern_stem, {".csv"})]))
    IN  [raised |-> parsed.raised,
         picks |-> sort_picks(SelectSeq(parsed.picks, LAMBDA e :
                       start_date <= e.dt /\ e.dt <= end_date))]

\* find_latest_deduped_end_date reading group(1), the start date of a rollup
find_latest_deduped_end_date_startDate(folder) ==
    LET globbed == SelectSeq(folder, LAMBDA f :
                       /\ Len(f.name) >= 5
                       /\ f.name[1] = "deduped_candidate_articles" /\ f.name[2] = "_"
                       /\ f.name[Len(f.name)] = ".csv"
                       /\ \E i \in 3..(Len(f.name) - 1) : f.name[i] = "_to_")
        matched == SelectSeq(globbed, LAMBDA f :
                       /\ Len(f.name) = 6
                       /\ f.name[3] \in DateShaped /\ f.name[4] = "_to_"
                       /\ f.name[5] \in DateShaped)
        ends == {parse_date_str(matched[i].name[3]) : i \in 1..Len(matched)}
    IN  IF \E e \in ends : "raised" \in DOMAIN e
        THEN [raised |-> TRUE, latest_end |-> <<>>]
        ELSE [raised |-> FALSE,
              latest_end |-> IF ends = {} THEN <<>>
                             ELSE <<CHOOSE d \in {e.day : e \in ends} :
                                        \A e \in ends : e.day <= d>>]

\* find_latest_deduped_end_date: <<the latest end date>>, <<>> for None
find_latest_deduped_end_date(folder) ==
    LET globbed == SelectSeq(folder, LAMBDA f :
                       /\ Len(f.name) >= 5
                       /\ f.name[1] = "deduped_candidate_articles" /\ f.name[2] = "_"
                       /\ f.name[Len(f.name)] = ".csv"
                       /\ \E i \in 3..(Len(f.name) - 1) : f.name[i] = "_to_")
        matched == SelectSeq(globbed, LAMBDA f :
                       /\ Len(f.name) = 6
                       /\ f.name[3] \in DateShaped /\ f.name[4] = "_to_"
                       /\ f.name[5] \in DateShaped)
        ends == {parse_date_str(matched[i].name[5]) : i \in 1..Len(matched)}
    IN  IF \E e \in ends : "raised" \in DOMAIN e
        THEN [raised |-> TRUE, latest_end |-> <<>>]
        ELSE [raised |-> FALSE,
              latest_end |-> IF ends = {} THEN <<>>
                             ELSE <<CHOOSE d \in {e.day : e \in ends} :
                                        \A e \in ends : e.day <= d>>]

\* determine_start_date, called with at least one entry; the rollup it starts
\* from taken as the end date itself
determine_start_date_sameDay(csv_entries, cli_start, folder) ==
    IF cli_start # <<>> THEN [raised |-> FALSE, start |-> cli_start[1]]
    ELSE LET latest == find_latest_deduped_end_date(folder)
         IN  IF latest.raised THEN [raised |-> TRUE, start |-> 0]
             ELSE IF latest.latest_end # <<>>
             THEN [raised |-> FALSE, start |-> latest.latest_end[1]]
             ELSE [raised |-> FALSE, start |-> csv_entries[1].dt]

\* determine_start_date, called with at least one entry
determine_start_date(csv_entries, cli_start, folder) ==
    IF cli_start # <<>> THEN [raised |-> FALSE, start |-> cli_start[1]]
    ELSE LET latest == find_latest_deduped_end_date(folder)
         IN  IF latest.raised THEN [raised |-> TRUE, start |-> 0]
             ELSE IF latest.latest_end # <<>>
             THEN [raised |-> FALSE, start |-> latest.latest_end[1] + 1]
             ELSE [raised |-> FALSE, start |-> csv_entries[1].dt]

\* daterange: the date strings of start..end, those of the model
daterange(start, end) ==
    {s \in DateShaped : /\ "day" \in DOMAIN parse_date_str(s)
                        /\ start <= parse_date_str(s).day
                        /\ parse_date_str(s).day <= end}

\* select_files_in_dates (dedupe_rss.py); the picks are sorted by the date
\* string, which orders the strings of a daterange as their days
select_files_in_dates(folder, ext, allowed_dates) ==
    LET globbed == SelectSeq(folder, LAMBDA f : glob(f.name, "candidate_articles", ext))
        picked == SelectSeq(globbed, LAMBDA f :
                      LET m == re_search_to_end(f.name, "candidate_articles", {".csv", ".json"})
                      IN  m # <<>> /\ m[1] \in allowed_dates)
    IN  sort_picks(MapSeq(picked, LAMBDA f :
            [dt |-> parse_date_str(re_search_to_end(f.name, "candidate_articles",
                                                    {".csv", ".json"})[1]).day,
             name |-> f.name, id |-> f.id]))

\* ---- the runs of the selection

MaxDirFiles == 3

\* the sequences of at most n different members of S
Arrangements(S, n) ==
    {f \in UNION {[1..k -> S] : k \in 0..n} :
        \A i, j \in DOMAIN f : i # j => f[i] # f[j]}

\* a file of a local folder; a path has no id
LocalFile(name) == [id |-> "", name |-> name]

Daily(stem, d, ext) == <<stem, "_", d, ext>>

\* names the glob of a script gives: daily files, a date that is no date, a
\* dated name inside a longer one, a name without a date
DailyNames(stem, days, ext) ==
    {Daily(stem, d, ext) : d \in days}
        \cup {Daily(stem, "2024-13-45", ext),
              <<stem, "_", "old", "_", stem, "_", "2024-06-08", ext>>,
              <<stem, "_", "2024-06-07", ext, ".bak", ext>>,
              <<stem, "_", "latest", ext>>}

WeekDays == {"2024-05-31", "2024-06-01", "2024-06-07", "2024-06-08"}

WeeklyFolders ==
    Arrangements({LocalFile(n) : n \in DailyNames("google_alerts_articles", WeekDays, ".csv")},
                 MaxDirFiles)

\* a Drive folder holds files by id, and can hold two of one name
DriveFolders ==
    Arrangements({[id |-> "a", name |-> n] :
                      n \in DailyNames("rss_articles", WeekDays, ".csv")}
                     \cup {[id |-> "b", name |-> Daily("rss_articles", "2024-06-07", ".csv")]},
                 MaxDirFiles)

Rollup(from, to) == <<"deduped_candidate_articles", "_", from, "_to_", to, ".csv">>

LocalFolders ==
    Arrangements({LocalFile(n) :
                      n \in DailyNames("rss_articles",
                                       {"2024-06-01", "2024-06-07", "2024-06-08",
                                        "2024-06-09"}, ".csv")
                            \cup {Rollup("2024-06-01", "2024-06-07"),
                                  Rollup("2024-05-31", "2024-06-01"),
                                  Rollup("latest", "2024-06-08"),
                                  Rollup("2024-06-01", "2024-13-45")}},
                 MaxDirFiles)

RangeFolders ==
    Arrangements({LocalFile(n) :
                      n \in DailyNames("candidate_articles",
                                       {"2024-06-01", "2024-06-08"}, ".csv")
                            \cup {Daily("candidate_articles", "2024-06-08", ".json")}},
                 MaxDirFiles)

\* a Thursday, the Friday after it, and the Sunday after that
RunDays == {739043, 739044, 739046}

InitSelect ==
    /\ s_script \in {"weekly", "drive", "local", "range"}
    /\ s_today \in RunDays
    /\ CASE s_script = "weekly" ->
              /\ s_folder \in WeeklyFolders
              \* --week-ending
              /\ s_cli \in {<<>>, <<739045>>}
              \* main passes 7; the other sizes are calls of the function alone
              /\ s_window_days \in {7, 1, 0}
         [] s_script = "drive" ->
              /\ s_folder \in DriveFolders
              /\ s_cli = <<>>
              /\ s_window_days = 7
         [] s_script = "local" ->
              /\ s_folder \in LocalFolders
              \* --start
              /\ s_cli \in {<<>>, <<739044>>}
              /\ s_window_days = 0
         [] s_script = "range" ->
              /\ s_folder \in RangeFolders
              \* --start, or the date the prompt returns
              /\ s_cli \in {<<739038>>, <<739045>>}
              /\ s_window_days = 0
    /\ s_pc = "list"
    /\ s_entries = <<>>
    /\ s_start = <<>>
    /\ s_selected = <<>>
    \* the other components stay idle
    /\ csv_files = <<>> /\ out_file = <<>> /\ out_before = <<>> /\ pc = "idle"
    /\ fileIdx = 0 /\ rowIdx = 0 /\ seen = {} /\ unique_rows = <<>>
    /\ total_rows = 0 /\ result = <<>>
    /\ r_variant = "idle" /\ r_today = 0 /\ r_pubdate = <<>> /\ r_result = <<>>
    /\ k_text = <<>> /\ k_keywords = <<>> /\ k_result = <<>>
    /\ i_script = "idle" /\ i_feeds = <<>> /\ i_today = 0 /\ i_keywords = <<>>
    /\ i_pc = "idle" /\ i_idx = 0 /\ i_count = 0 /\ i_k = 0 /\ i_taken = 0 /\ i_tiers = <<>>
    /\ i_parsed = <<>>
    /\ i_last = <<>>
    /\ all_articles = <<>> /\ seen_urls = {} /\ seen_titles = {}
    /\ error_log = <<>> /\ successful_feeds = 0
    /\ output_csv = <<>> /\ output_error_log = <<>>
    /\ m_script = "idle" /\ m_files = <<>> /\ m_out = <<>> /\ m_pc = "idle"
    /\ m_idx = 0 /\ m_acc = <<>> /\ m_result = <<>>
    /\ u_args = <<>> /\ u_folder = {} /\ u_next_id = 0 /\ u_i = 0 /\ u_pc = "idle"
    /\ u_existing = <<>> /\ u_k = 0 /\ u_last = "none"
    /\ l_entry = <<>> /\ l_pc = "idle" /\ l_result = <<>>
    /\ n_entry = <<>> /\ n_pc = "idle" /\ n_result = <<>>
    /\ f_today = 0 /\ f_pc = "idle" /\ f_result = <<>>
    /\ g_folder = <<>> /\ g_runs = 0 /\ g_added = 0 /\ g_last = <<>> /\ g_written = <<>>

selectInputs == <<s_script, s_folder, s_today, s_cli, s_window_days>>

notSelect == <<dedupeVars, recentVars, keywordVars, ingestVars, masterVars, uploadVars, linkVars, snippetVars, fridayVars, rollupVars>>

\* a listing step: the entries, and where the run goes on; main returns when
\* the listing is empty
Listed(listing) ==
    /\ s_entries' = listing.picks
    /\ s_pc' = IF listing.raised THEN "raised"
               ELSE IF listing.picks = <<>> THEN "done" ELSE "select"
    /\ UNCHANGED <<s_start, s_selected, selectInputs, notSelect>>

\* main of dedupe_google_weekly.py up to the listing
WeeklyList ==
    /\ s_script = "weekly" /\ s_pc = "list"
    /\ Listed(weekly_list_csv_files_with_dates(s_folder))

\* main of dedupe_google_weekly.py from the listing on
WeeklySelect ==
    /\ s_script = "weekly" /\ s_pc = "select"
    /\ LET week_ending == IF s_cli = <<>> THEN most_recent_friday(s_today) ELSE s_cli[1]
           selected == weekly_filter_files_for_week(s_entries, week_ending, s_window_days)
       IN  /\ s_selected' = selected.picks
           /\ s_pc' = IF selected.raised THEN "raised" ELSE "done"
    /\ UNCHANGED <<s_entries, s_start, selectInputs, notSelect>>

\* main of fetch_week_from_drive.py up to the candidates
DriveList ==
    /\ s_script = "drive" /\ s_pc = "list"
    /\ s_entries' = list_candidate_files(s_folder, "rss_articles")
    /\ s_start' = <<compute_week_window(s_today).start_date>>
    /\ s_pc' = "select"
    /\ UNCHANGED <<s_selected, selectInputs, notSelect>>

\* main of fetch_week_from_drive.py from the candidates on
DriveSelect ==
    /\ s_script = "drive" /\ s_pc = "select"
    /\ LET window == compute_week_window(s_today)
           week_files == drive_filter_files_for_week(s_entries, "rss_articles",
                                                     window.start_date, window.end_date)
       IN  /\ s_selected' = week_files.picks
           /\ s_pc' = IF week_files.raised THEN "raised" ELSE "done"
    /\ UNCHANGED <<s_entries, s_start, selectInputs, notSelect>>

\* main of local_dedupe_rss.py up to the listing; a --start in the future exits
LocalList ==
    /\ s_script = "local" /\ s_pc = "list"
    /\ IF s_cli # <<>> /\ s_cli[1] > s_today
       THEN /\ s_pc' = "exit"
            /\ UNCHANGED <<s_entries, s_start, s_selected, selectInputs, notSelect>>
       ELSE Listed(rss_list_csv_files_with_dates(s_folder))

\* main of local_dedupe_rss.py from the listing on
LocalSelect ==
    /\ s_script = "local" /\ s_pc = "select"
    /\ LET start_dt == determine_start_date(s_entries, s_cli, s_folder)
       IN  IF start_dt.raised
           THEN /\ s_pc' = "raised"
                /\ UNCHANGED <<s_start, s_selected>>
           ELSE /\ s_start' = <<start_dt.start>>
                /\ s_selected' = SelectSeq(s_entries, LAMBDA e : e.dt >= start_dt.start)
                /\ s_pc' = "done"
    /\ UNCHANGED <<s_entries, selectInputs, notSelect>>

\* main of dedupe_rss.py up to csv_inputs; a start in the future exits, or is
\* asked for again
RangeSelect ==
    /\ s_script = "range" /\ s_pc = "list"
    /\ IF s_cli[1] > s_today
       THEN /\ s_pc' = "exit"
            /\ UNCHANGED <<s_start, s_selected>>
       ELSE /\ s_start' = s_cli
            /\ s_selected' = select_files_in_dates(s_folder, ".csv",
                                                   daterange(s_cli[1], s_today))
            /\ s_pc' = "done"
    /\ UNCHANGED <<s_entries, selectInputs, notSelect>>

NextSelect ==
    \/ WeeklyList
    \/ WeeklySelect
    \/ DriveList
    \/ DriveSelect
    \/ LocalList
    \/ LocalSelect
    \/ RangeSelect

SpecSelect == InitSelect /\ [][NextSelect]_vars

---------------------------------------------------------------------------
\* build_master_csv of dedupe_google_weekly.py and build_master_json of
\* dedupe_rss.py

weekly_FIELDS == <<"keywords", "title", "snippet", "date_published", "source_domain",
                   "url", "in_roundup">>

\* identity = tuple((row.get(k, "") or "").strip() for k in FIELDS)
weekly_identity(row) ==
    [i \in 1..Len(weekly_FIELDS) |-> strip(OrEmpty(Get(row, weekly_FIELDS[i], Empty)))]

\* {k: row.get(k, "") for k in FIELDS}
weekly_StoredRow(row) == [k \in Range(weekly_FIELDS) |-> Get(row, k, Empty)]

\* the body of `for row in reader:`, counting only the rows it keeps
weekly_ProcessRow_countKept(acc, row) ==
    IF weekly_identity(row) \in acc.seen
    THEN acc
    ELSE [acc EXCEPT !.total_rows = @ + 1,
                     !.seen = @ \cup {weekly_identity(row)},
                     !.unique_rows = Append(@, weekly_StoredRow(row))]

\* the body of `for row in reader:`
weekly_ProcessRow(acc, row) ==
    IF weekly_identity(row) \in acc.seen
    THEN [acc EXCEPT !.total_rows = @ + 1]
    ELSE [acc EXCEPT !.total_rows = @ + 1,
                     !.seen = @ \cup {weekly_identity(row)},
                     !.unique_rows = Append(@, weekly_StoredRow(row))]

\* `for row in reader:` from physical row i on
RECURSIVE weekly_ReadRows(_, _, _)
weekly_ReadRows(acc, f, i) ==
    IF i > Len(f.rows) THEN acc
    ELSE IF f.rows[i] = <<>> THEN weekly_ReadRows(acc, f, i + 1)
    ELSE weekly_ReadRows(weekly_ProcessRow(acc, DictRow(f.fieldnames, f.rows[i])), f, i + 1)

\* the body of `for fp in csv_files:`
weekly_ReadFile(acc, f) ==
    IF SelectSeq(weekly_FIELDS, LAMBDA k : k \notin Range(f.fieldnames)) # <<>>
    THEN [acc EXCEPT !.error = TRUE]
    ELSE weekly_ReadRows(acc, f, 1)

\* writer.writeheader(); for r in unique_rows: writer.writerow(r)
weekly_WrittenFile(rows) ==
    [exists |-> TRUE,
     fieldnames |-> weekly_FIELDS,
     rows |-> [i \in 1..Len(rows) |->
                 [j \in 1..Len(weekly_FIELDS) |-> CsvCell(rows[i][weekly_FIELDS[j]])]]]

\* ---- JSON
\*
\* A JSON value as json.load gives it: an object, with its members [k, v] in
\* the order of the text and no key twice, or a value of another type, with
\* its text; `members` is empty for the one and `text` for the other.

isinstance_dict(obj) == obj.t = "object"

\* json.dumps(obj, sort_keys=True, ensure_ascii=False): the text, a sequence
\* of tokens
RECURSIVE json_dumps_sorted(_)
json_dumps_sorted(value) ==
    IF value.t # "object" THEN value.text
    ELSE LET members == sorted_by(value.members,
                                       [i \in 1..Len(value.members) |-> value.members[i].k])
         IN  <<"{">> \o Flatten([i \in 1..Len(members) |->
                            (IF i > 1 THEN <<", ">> ELSE <<>>)
                                \o <<"\"">> \o members[i].k \o <<"\"", ": ">>
                                \o json_dumps_sorted(members[i].v)])
                     \o <<"}">>

\* the same text with the members in the order of the object
RECURSIVE json_dumps(_)
json_dumps(value) ==
    IF value.t # "object" THEN value.text
    ELSE <<"{">> \o Flatten([i \in 1..Len(value.members) |->
                        (IF i > 1 THEN <<", ">> ELSE <<>>)
                            \o <<"\"">> \o value.members[i].k \o <<"\"", ": ">>
                            \o json_dumps(value.members[i].v)])
                 \o <<"}">>

\* canonicalize_json_obj
canonicalize_json_obj(obj) == json_dumps_sorted(obj)

\* the body of `for obj in data:`, with the text of the object as its key
json_ProcessObj_keyOrder(acc, obj) ==
    IF ~isinstance_dict(obj) THEN acc
    ELSE LET key == json_dumps(obj)
         IN  IF key \in acc.seen
             THEN [acc EXCEPT !.total_rows = @ + 1]
             ELSE [acc EXCEPT !.total_rows = @ + 1,
                              !.seen = @ \cup {key},
                              !.unique_rows = Append(@, obj)]

\* the body of `for obj in data:`; total_rows stands for total_objs and
\* unique_rows for unique_objs
json_ProcessObj(acc, obj) ==
    IF ~isinstance_dict(obj) THEN acc
    ELSE LET key == canonicalize_json_obj(obj)
         IN  IF key \in acc.seen
             THEN [acc EXCEPT !.total_rows = @ + 1]
             ELSE [acc EXCEPT !.total_rows = @ + 1,
                              !.seen = @ \cup {key},
                              !.unique_rows = Append(@, obj)]

RECURSIVE json_ReadObjs(_, _, _)
json_ReadObjs(acc, data, i) ==
    IF i > Len(data) THEN acc
    ELSE json_ReadObjs(json_ProcessObj(acc, data[i]), data, i + 1)

\* the body of `for fp in json_files:`; a file is [top |-> "list", data |-> the
\* elements] or [top |-> "value", data |-> <<the value>>]
json_ReadFile(acc, f) ==
    IF f.top # "list" THEN [acc EXCEPT !.error = TRUE]
    ELSE json_ReadObjs(acc, f.data, 1)

\* unique_count, total_rows, dup_count = max(0, total_rows - unique_count)
weekly_Counts(acc) ==
    LET unique_count == Len(acc.unique_rows)
        dup_count == IF acc.total_rows - unique_count > 0
                     THEN acc.total_rows - unique_count ELSE 0
    IN  <<unique_count, acc.total_rows, dup_count>>

\* unique_count, total_objs, dup_count = max(0, total_objs - unique_count)
json_Counts(acc) ==
    LET unique_count == Len(acc.unique_rows)
        dup_count == IF acc.total_rows - unique_count > 0
                     THEN acc.total_rows - unique_count ELSE 0
    IN  <<unique_count, acc.total_rows, dup_count>>

\* json.dump(unique_objs, f, ensure_ascii=False, indent=2): the top-level list
\* of the file written
json_WrittenFile(objs) == [exists |-> TRUE, top |-> "list", data |-> objs]

\* ---- the inputs

\* rows of a weekly input: a row with its in_roundup cell, the same row cut
\* short before it, the row padded with whitespace, and a blank line
RowA7    == RowA \o << <<>> >>
RowApad7 == RowApad \o << <<>> >>

WeeklyRowPool == {RowA7, RowA, RowApad7, RowBlank}

\* the header of the scraper, and one that lacks in_roundup
WeeklyHeaderPool == {weekly_FIELDS, FIELDS}

Number(text) == [t |-> "number", text |-> <<text>>, members |-> <<>>]

Object(members) == [t |-> "object", text |-> <<>>, members |-> members]

Member(k, v) == [k |-> <<k>>, v |-> v]

\* {"a": 1, "b": 2} and {"b": 2, "a": 1}
ObjAB == Object(<<Member("a", Number("1")), Member("b", Number("2"))>>)
ObjBA == Object(<<Member("b", Number("2")), Member("a", Number("1"))>>)
\* {"a": {"a": 1, "b": 2}} and {"a": {"b": 2, "a": 1}}
ObjNestAB == Object(<<Member("a", ObjAB)>>)
ObjNestBA == Object(<<Member("a", ObjBA)>>)
\* 3 and [{"a": 1, "b": 2}]
NotObjNumber == Number("3")
NotObjList == [t |-> "list", text |-> <<"[", "{", "\"", "a", "\"", ": ", "1", "}", "]">>,
               members |-> <<>>]

ElementPool == {ObjAB, ObjBA, ObjNestAB, ObjNestBA, NotObjNumber, NotObjList}

\* the list of files with top-level values of the kinds tops[i] that holds the
\* elements `elems`, lens[i] of them in file i
JsonFileList(tops, lens, elems) ==
    [i \in 1..Len(tops) |->
        LET before == SeqSum(SubSeq(lens, 1, i - 1))
        IN  [top |-> tops[i], data |-> SubSeq(elems, before + 1, before + lens[i])]]

InitMaster ==
    /\ m_script \in {"weekly", "json"}
    /\ \E m \in 0..MaxFiles, n \in 0..MaxTotalRows :
         \E lens \in [1..m -> 0..n] :
             /\ SeqSum(lens) = n
             /\ IF m_script = "weekly"
                THEN \E hdrs \in [1..m -> WeeklyHeaderPool], rows \in [1..n -> WeeklyRowPool] :
                         m_files = FileList(hdrs, lens, rows)
                ELSE \E tops \in [1..m -> {"list", "value"}], elems \in [1..n -> ElementPool] :
                         /\ \A i \in 1..m : tops[i] = "value" => lens[i] = 1
                         /\ m_files = JsonFileList(tops, lens, elems)
    /\ m_out = NoFile
    /\ m_pc = "read"
    /\ m_idx = 1
    /\ m_acc = AccInit
    /\ m_result = <<>>
    \* the other components stay idle
    /\ csv_files = <<>> /\ out_file = <<>> /\ out_before = <<>> /\ pc = "idle"
    /\ fileIdx = 0 /\ rowIdx = 0 /\ seen = {} /\ unique_rows = <<>>
    /\ total_rows = 0 /\ result = <<>>
    /\ r_variant = "idle" /\ r_today = 0 /\ r_pubdate = <<>> /\ r_result = <<>>
    /\ k_text = <<>> /\ k_keywords = <<>> /\ k_result = <<>>
    /\ i_script = "idle" /\ i_feeds = <<>> /\ i_today = 0 /\ i_keywords = <<>>
    /\ i_pc = "idle" /\ i_idx = 0 /\ i_count = 0 /\ i_k = 0 /\ i_taken = 0 /\ i_tiers = <<>>
    /\ i_parsed = <<>>
    /\ i_last = <<>>
    /\ all_articles = <<>> /\ seen_urls = {} /\ seen_titles = {}
    /\ error_log = <<>> /\ successful_feeds = 0
    /\ output_csv = <<>> /\ output_error_log = <<>>
    /\ s_script = "idle" /\ s_folder = <<>> /\ s_today = 0 /\ s_cli = <<>>
    /\ s_window_days = 0 /\ s_pc = "idle" /\ s_entries = <<>> /\ s_start = <<>>
    /\ s_selected = <<>>
    /\ u_args = <<>> /\ u_folder = {} /\ u_next_id = 0 /\ u_i = 0 /\ u_pc = "idle"
    /\ u_existing = <<>> /\ u_k = 0 /\ u_last = "none"
    /\ l_entry = <<>> /\ l_pc = "idle" /\ l_result = <<>>
    /\ n_entry = <<>> /\ n_pc = "idle" /\ n_result = <<>>
    /\ f_today = 0 /\ f_pc = "idle" /\ f_result = <<>>
    /\ g_folder = <<>> /\ g_runs = 0 /\ g_added = 0 /\ g_last = <<>> /\ g_written = <<>>

notMaster == <<dedupeVars, recentVars, keywordVars, ingestVars, selectVars, uploadVars, linkVars, snippetVars, fridayVars, rollupVars>>

\* one turn of `for fp in csv_files:` (build_master_csv of dedupe_google_weekly.py)
WeeklyReadFile ==
    /\ m_script = "weekly" /\ m_pc = "read" /\ m_idx <= Len(m_files)
    /\ LET acc == weekly_ReadFile(m_acc, m_files[m_idx])
       IN  /\ m_acc' = acc
           /\ IF acc.error
              THEN m_pc' = "raised" /\ m_idx' = m_idx
              ELSE m_pc' = "read" /\ m_idx' = m_idx + 1
    /\ UNCHANGED <<m_script, m_files, m_out, m_result, notMaster>>

\* build_master_csv from the end of the loop to the return
WeeklyWriteOutput ==
    /\ m_script = "weekly" /\ m_pc = "read" /\ m_idx > Len(m_files)
    /\ m_out' = weekly_WrittenFile(m_acc.unique_rows)
    /\ m_result' = weekly_Counts(m_acc)
    /\ m_pc' = "done"
    /\ UNCHANGED <<m_script, m_files, m_idx, m_acc, notMaster>>

\* one turn of `for fp in json_files:` (build_master_json)
JsonReadFile ==
    /\ m_script = "json" /\ m_pc = "read" /\ m_idx <= Len(m_files)
    /\ LET acc == json_ReadFile(m_acc, m_files[m_idx])
       IN  /\ m_acc' = acc
           /\ IF acc.error
              THEN m_pc' = "raised" /\ m_idx' = m_idx
              ELSE m_pc' = "read" /\ m_idx' = m_idx + 1
    /\ UNCHANGED <<m_script, m_files, m_out, m_result, notMaster>>

\* build_master_json from the end of the loop to the return
JsonWriteOutput ==
    /\ m_script = "json" /\ m_pc = "read" /\ m_idx > Len(m_files)
    /\ m_out' = json_WrittenFile(m_acc.unique_rows)
    /\ m_result' = json_Counts(m_acc)
    /\ m_pc' = "done"
    /\ UNCHANGED <<m_script, m_files, m_idx, m_acc, notMaster>>

NextMaster ==
    \/ WeeklyReadFile
    \/ WeeklyWriteOutput
    \/ JsonReadFile
    \/ JsonWriteOutput

SpecMaster == InitMaster /\ [][NextMaster]_vars

---------------------------------------------------------------------------
\* upload_file and main of upload_digests_to_gdrive.py
\*
\* The Drive folder is the set of its files that are not trashed, each
\* [id, name]; Drive gives every file its own id, and lets a folder hold
\* several files of one name.

MaxExisting == 3
MaxArgs == 2

\* the number of files one call of files().list returns at most.  upload_file
\* asks for no page size and gets pages of the size Drive chooses, of which
\* the model takes a small one; the files past the first page come with
\* further calls that pass on the nextPageToken of the answer, as
\* list_candidate_files of fetch_week_from_drive.py makes them
PageSize == 2

\* the files of the folder the query of upload_file matches
SameName(folder, file_name) == {f \in folder : f.name = file_name}

\* the answers drive.files().list(q=query, ...).execute() can give: a page of
\* the matching files, in some order
ListAnswers(folder, file_name) ==
    LET matching == SameName(folder, file_name)
        size == Min(PageSize, Cardinality(matching))
    IN  UNION {Orderings(page) : page \in {p \in SUBSET matching : Cardinality(p) = size}}

InitUpload ==
    /\ \E n \in 0..MaxExisting :
         \E names \in [1..n -> {"a.csv", "b.csv"}] :
             u_folder = {[id |-> i, name |-> names[i]] : i \in 1..n}
    /\ u_next_id = Cardinality(u_folder) + 1
    \* sys.argv[1:]: paths of files, and a path that is no file
    /\ u_args \in UNION {[1..n -> {[name |-> "a.csv", is_file |-> TRUE],
                                   [name |-> "b.csv", is_file |-> TRUE],
                                   [name |-> "c.csv", is_file |-> FALSE]}] : n \in 0..MaxArgs}
    /\ u_i = 1
    /\ u_pc = "main"
    /\ u_existing = <<>>
    /\ u_k = 0
    /\ u_last = "none"
    \* the other components stay idle
    /\ csv_files = <<>> /\ out_file = <<>> /\ out_before = <<>> /\ pc = "idle"
    /\ fileIdx = 0 /\ rowIdx = 0 /\ seen = {} /\ unique_rows = <<>>
    /\ total_rows = 0 /\ result = <<>>
    /\ r_variant = "idle" /\ r_today = 0 /\ r_pubdate = <<>> /\ r_result = <<>>
    /\ k_text = <<>> /\ k_keywords = <<>> /\ k_result = <<>>
    /\ i_script = "idle" /\ i_feeds = <<>> /\ i_today = 0 /\ i_keywords = <<>>
    /\ i_pc = "idle" /\ i_idx = 0 /\ i_count = 0 /\ i_k = 0 /\ i_taken = 0 /\ i_tiers = <<>>
    /\ i_parsed = <<>>
    /\ i_last = <<>>
    /\ all_articles = <<>> /\ seen_urls = {} /\ seen_titles = {}
    /\ error_log = <<>> /\ successful_feeds = 0
    /\ output_csv = <<>> /\ output_error_log = <<>>
    /\ s_script = "idle" /\ s_folder = <<>> /\ s_today = 0 /\ s_cli = <<>>
    /\ s_window_days = 0 /\ s_pc = "idle" /\ s_entries = <<>> /\ s_start = <<>>
    /\ s_selected = <<>>
    /\ m_script = "idle" /\ m_files = <<>> /\ m_out = <<>> /\ m_pc = "idle"
    /\ m_idx = 0 /\ m_acc = <<>> /\ m_result = <<>>
    /\ l_entry = <<>> /\ l_pc = "idle" /\ l_result = <<>>
    /\ n_entry = <<>> /\ n_pc = "idle" /\ n_result = <<>>
    /\ f_today = 0 /\ f_pc = "idle" /\ f_result = <<>>
    /\ g_folder = <<>> /\ g_runs = 0 /\ g_added = 0 /\ g_last = <<>> /\ g_written = <<>>

notUpload == <<dedupeVars, recentVars, keywordVars, ingestVars, selectVars, masterVars,
               linkVars, snippetVars, fridayVars, rollupVars>>

\* main: a path that is no file is skipped
UploadSkip ==
    /\ u_pc = "main" /\ u_i <= Len(u_args) /\ ~u_args[u_i].is_file
    /\ u_i' = u_i + 1
    /\ UNCHANGED <<u_args, u_folder, u_next_id, u_pc, u_existing, u_k, u_last, notUpload>>

\* upload_file, overwrite being True: the query for the files of the same name
UploadList ==
    /\ u_pc = "main" /\ u_i <= Len(u_args) /\ u_args[u_i].is_file
    /\ u_existing' \in ListAnswers(u_folder, u_args[u_i].name)
    /\ u_k' = 1
    /\ u_pc' = "delete"
    /\ u_last' = "list"
    /\ UNCHANGED <<u_args, u_folder, u_next_id, u_i, notUpload>>

\* one turn of `for f in existing.get("files", []):`.  The delete succeeds, or
\* fails with status 404, the file having gone meanwhile, or fails otherwise
UploadDelete ==
    /\ u_pc = "delete" /\ u_k <= Len(u_existing)
    /\ \E answer \in {"deleted", "HttpError 404", "error"} :
         /\ u_last' = answer
         /\ IF answer = "error"
            THEN /\ u_pc' = "raised"
                 /\ UNCHANGED <<u_folder, u_k>>
            ELSE /\ u_folder' = u_folder \ {u_existing[u_k]}
                 /\ u_k' = u_k + 1
                 /\ u_pc' = "delete"
    /\ UNCHANGED <<u_args, u_next_id, u_i, u_existing, notUpload>>

\* upload_file from the end of the loop on: the create, which succeeds or
\* raises
UploadCreate ==
    /\ u_pc = "delete" /\ u_k > Len(u_existing)
    /\ \E answer \in {"created", "error"} :
         /\ u_last' = answer
         /\ IF answer = "error"
            THEN /\ u_pc' = "raised"
                 /\ UNCHANGED <<u_folder, u_next_id, u_i>>
            ELSE /\ u_folder' = u_folder \cup {[id |-> u_next_id, name |-> u_args[u_i].name]}
                 /\ u_next_id' = u_next_id + 1
                 /\ u_i' = u_i + 1
                 /\ u_pc' = "main"
    /\ UNCHANGED <<u_args, u_existing, u_k, notUpload>>

NextUpload ==
    \/ UploadSkip
    \/ UploadList
    \/ UploadDelete
    \/ UploadCreate

SpecUpload == InitUpload /\ [][NextUpload]_vars

---------------------------------------------------------------------------
\* _extract_best_link called on its own

\* the targets a redirect carries
TargetA == <<"https://", "example.com", "/a">>
TargetB == <<"https://", "example.com", "/b">>

\* the part of a link after the "?", <<>> for a link without one
QueryPool ==
    {<<>>,
     <<"q", "=">> \o TargetA \o <<"&", "sa", "=", "D">>,
     <<"sa", "=", "D", "&", "url", "=">> \o TargetB,
     <<"url", "=">> \o TargetB \o <<"&", "q", "=">> \o TargetA,
     <<"q", "=", "&", "url", "=">> \o TargetB,
     <<"sa", "=", "D">>,
     <<"q", "=">> \o TargetA \o <<"&", "q", "=">> \o TargetB,
     <<"q", "=", "+">> \o TargetA}

\* links: with and without whitespace before them, to the redirect endpoint, to
\* another host whose name ends alike and to a news site, with a path that is
\* /url, begins with it, or is another
LinkPool ==
    {pad \o <<"https://", host>> \o path \o (IF query = <<>> THEN <<>> ELSE <<"?">> \o query) :
        pad \in {<<>>, <<" ">>},
        host \in {"www.google.com", "notgoogle.com", "news.example"},
        path \in {<<"/url">>, <<"/urls">>, <<"/a">>},
        query \in QueryPool}

\* https://www.google.com/url?q=https://example.com/a&sa=D
ExampleRedirect ==
    <<"https://", "www.google.com", "/url", "?", "q", "=", "https://", "example.com", "/a",
      "&", "sa", "=", "D">>

InitLink ==
    /\ \E link \in LinkPool \cup {None, <<>>} :
         \E links \in {<<>>, <<None>>, <<ExampleRedirect>>,
                       << <<" ", "https://", "news.example", "/a">>, ExampleRedirect >>} :
             l_entry = [link |-> link, links |-> links]
    /\ l_pc = "call"
    /\ l_result = <<>>
    \* the other components stay idle
    /\ csv_files = <<>> /\ out_file = <<>> /\ out_before = <<>> /\ pc = "idle"
    /\ fileIdx = 0 /\ rowIdx = 0 /\ seen = {} /\ unique_rows = <<>>
    /\ total_rows = 0 /\ result = <<>>
    /\ r_variant = "idle" /\ r_today = 0 /\ r_pubdate = <<>> /\ r_result = <<>>
    /\ k_text = <<>> /\ k_keywords = <<>> /\ k_result = <<>>
    /\ i_script = "idle" /\ i_feeds = <<>> /\ i_today = 0 /\ i_keywords = <<>>
    /\ i_pc = "idle" /\ i_idx = 0 /\ i_count = 0 /\ i_k = 0 /\ i_taken = 0 /\ i_tiers = <<>>
    /\ i_parsed = <<>>
    /\ i_last = <<>>
    /\ all_articles = <<>> /\ seen_urls = {} /\ seen_titles = {}
    /\ error_log = <<>> /\ successful_feeds = 0
    /\ output_csv = <<>> /\ output_error_log = <<>>
    /\ s_script = "idle" /\ s_folder = <<>> /\ s_today = 0 /\ s_cli = <<>>
    /\ s_window_days = 0 /\ s_pc = "idle" /\ s_entries = <<>> /\ s_start = <<>>
    /\ s_selected = <<>>
    /\ m_script = "idle" /\ m_files = <<>> /\ m_out = <<>> /\ m_pc = "idle"
    /\ m_idx = 0 /\ m_acc = <<>> /\ m_result = <<>>
    /\ u_args = <<>> /\ u_folder = {} /\ u_next_id = 0 /\ u_i = 0 /\ u_pc = "idle"
    /\ u_existing = <<>> /\ u_k = 0 /\ u_last = "none"
    /\ n_entry = <<>> /\ n_pc = "idle" /\ n_result = <<>>
    /\ f_today = 0 /\ f_pc = "idle" /\ f_result = <<>>
    /\ g_folder = <<>> /\ g_runs = 0 /\ g_added = 0 /\ g_last = <<>> /\ g_written = <<>>

CallExtractBestLink ==
    /\ l_pc = "call"
    /\ l_result' = extract_best_link(l_entry)
    /\ l_pc' = "done"
    /\ UNCHANGED <<l_entry, dedupeVars, recentVars, keywordVars, ingestVars, selectVars,
                   masterVars, uploadVars, snippetVars, fridayVars, rollupVars>>

NextLink ==
    \/ CallExtractBestLink

SpecLink == InitLink /\ [][NextLink]_vars

---------------------------------------------------------------------------
\* _extract_snippet called on its own

\* what a field of the entry may hold: nothing, markup without text,
\* whitespace, text, markup with text, a character reference
ValuePool ==
    {<<>>, <<"<br>">>, <<" ">>, <<"a">>, <<"<i>", "b", "</i>", " ", " ", "a">>, <<"&amp;">>}

InitSnippet ==
    /\ \E content \in {<<>>} \cup {<<v>> : v \in ValuePool} :
         \E summary \in {None} \cup ValuePool :
             \E description \in {None} \cup ValuePool :
                 n_entry = [content |-> content, summary |-> summary,
                            description |-> description]
    /\ n_pc = "call"
    /\ n_result = <<>>
    \* the other components stay idle
    /\ csv_files = <<>> /\ out_file = <<>> /\ out_before = <<>> /\ pc = "idle"
    /\ fileIdx = 0 /\ rowIdx = 0 /\ seen = {} /\ unique_rows = <<>>
    /\ total_rows = 0 /\ result = <<>>
    /\ r_variant = "idle" /\ r_today = 0 /\ r_pubdate = <<>> /\ r_result = <<>>
    /\ k_text = <<>> /\ k_keywords = <<>> /\ k_result = <<>>
    /\ i_script = "idle" /\ i_feeds = <<>> /\ i_today = 0 /\ i_keywords = <<>>
    /\ i_pc = "idle" /\ i_idx = 0 /\ i_count = 0 /\ i_k = 0 /\ i_taken = 0 /\ i_tiers = <<>>
    /\ i_parsed = <<>>
    /\ i_last = <<>>
    /\ all_articles = <<>> /\ seen_urls = {} /\ seen_titles = {}
    /\ error_log = <<>> /\ successful_feeds = 0
    /\ output_csv = <<>> /\ output_error_log = <<>>
    /\ s_script = "idle" /\ s_folder = <<>> /\ s_today = 0 /\ s_cli = <<>>
    /\ s_window_days = 0 /\ s_pc = "idle" /\ s_entries = <<>> /\ s_start = <<>>
    /\ s_selected = <<>>
    /\ m_script = "idle" /\ m_files = <<>> /\ m_out = <<>> /\ m_pc = "idle"
    /\ m_idx = 0 /\ m_acc = <<>> /\ m_result = <<>>
    /\ u_args = <<>> /\ u_folder = {} /\ u_next_id = 0 /\ u_i = 0 /\ u_pc = "idle"
    /\ u_existing = <<>> /\ u_k = 0 /\ u_last = "none"
    /\ l_entry = <<>> /\ l_pc = "idle" /\ l_result = <<>>
    /\ f_today = 0 /\ f_pc = "idle" /\ f_result = <<>>
    /\ g_folder = <<>> /\ g_runs = 0 /\ g_added = 0 /\ g_last = <<>> /\ g_written = <<>>

CallExtractSnippet ==
    /\ n_pc = "call"
    /\ n_result' = extract_snippet(n_entry)
    /\ n_pc' = "done"
    /\ UNCHANGED <<n_entry, dedupeVars, recentVars, keywordVars, ingestVars, selectVars,
                   masterVars, uploadVars, linkVars, fridayVars, rollupVars>>

NextSnippet ==
    \/ CallExtractSnippet

SpecSnippet == InitSnippet /\ [][NextSnippet]_vars

---------------------------------------------------------------------------
\* most_recent_friday and compute_week_window called on their own

\* the dates given: MaxDates days from FirstDate (2024-04-24) on
FirstDate == 739000
MaxDates == 70

InitFriday ==
    /\ f_today \in FirstDate..(FirstDate + MaxDates - 1)
    /\ f_pc = "call"
    /\ f_result = <<>>
    \* the other components stay idle
    /\ csv_files = <<>> /\ out_file = <<>> /\ out_before = <<>> /\ pc = "idle"
    /\ fileIdx = 0 /\ rowIdx = 0 /\ seen = {} /\ unique_rows = <<>>
    /\ total_rows = 0 /\ result = <<>>
    /\ r_variant = "idle" /\ r_today = 0 /\ r_pubdate = <<>> /\ r_result = <<>>
    /\ k_text = <<>> /\ k_keywords = <<>> /\ k_result = <<>>
    /\ i_script = "idle" /\ i_feeds = <<>> /\ i_today = 0 /\ i_keywords = <<>>
    /\ i_pc = "idle" /\ i_idx = 0 /\ i_count = 0 /\ i_k = 0 /\ i_taken = 0 /\ i_tiers = <<>>
    /\ i_parsed = <<>>
    /\ i_last = <<>>
    /\ all_articles = <<>> /\ seen_urls = {} /\ seen_titles = {}
    /\ error_log = <<>> /\ successful_feeds = 0
    /\ output_csv = <<>> /\ output_error_log = <<>>
    /\ s_script = "idle" /\ s_folder = <<>> /\ s_today = 0 /\ s_cli = <<>>
    /\ s_window_days = 0 /\ s_pc = "idle" /\ s_entries = <<>> /\ s_start = <<>>
    /\ s_selected = <<>>
    /\ m_script = "idle" /\ m_files = <<>> /\ m_out = <<>> /\ m_pc = "idle"
    /\ m_idx = 0 /\ m_acc = <<>> /\ m_result = <<>>
    /\ u_args = <<>> /\ u_folder = {} /\ u_next_id = 0 /\ u_i = 0 /\ u_pc = "idle"
    /\ u_existing = <<>> /\ u_k = 0 /\ u_last = "none"
    /\ l_entry = <<>> /\ l_pc = "idle" /\ l_result = <<>>
    /\ n_entry = <<>> /\ n_pc = "idle" /\ n_result = <<>>
    /\ g_folder = <<>> /\ g_runs = 0 /\ g_added = 0 /\ g_last = <<>> /\ g_written = <<>>

notFriday == <<dedupeVars, recentVars, keywordVars, ingestVars, selectVars, masterVars,
               uploadVars, linkVars, snippetVars, rollupVars>>

CallMostRecentFriday ==
    /\ f_pc = "call"
    /\ f_result' = <<most_recent_friday(f_today)>>
    /\ f_pc' = "done"
    /\ UNCHANGED <<f_today, notFriday>>

CallComputeWeekWindow ==
    /\ f_pc = "call"
    /\ f_result' = <<compute_week_window(f_today).start_date,
                     compute_week_window(f_today).end_date>>
    /\ f_pc' = "done"
    /\ UNCHANGED <<f_today, notFriday>>

NextFriday ==
    \/ CallMostRecentFriday
    \/ CallComputeWeekWindow

SpecFriday == InitFriday /\ [][NextFriday]_vars

---------------------------------------------------------------------------
\* main of local_dedupe_rss.py without --start, run again and again on a
\* folder that gets new daily files between the runs

MaxRuns == 3
MaxAdded == 3

\* strftime("%Y-%m-%d") of a date of the model
strftime_date(day) ==
    CASE day = 739037 -> "2024-05-31"
      [] day = 739038 -> "2024-06-01"
      [] day = 739044 -> "2024-06-07"
      [] day = 739045 -> "2024-06-08"
      [] day = 739046 -> "2024-06-09"

\* a file of the folder with the header csv.DictReader finds in it
DailyFile(name, fieldnames) == [id |-> "", name |-> name, fieldnames |-> fieldnames]

\* the daily files that may be added: one per day, a copy lying around under
\* a longer name, and a file of a day whose header lacks a field
AddedFiles ==
    {DailyFile(Daily("rss_articles", d, ".csv"), HeaderDaily) :
         d \in {"2024-06-01", "2024-06-07", "2024-06-08", "2024-06-09"}}
        \cup {DailyFile(<<"rss_articles", "_", "old", "_", "rss_articles", "_",
                          "2024-06-08", ".csv">>, HeaderDaily),
              DailyFile(Daily("rss_articles", "2024-06-09", ".csv"), HeaderDrift)}

\* the folder before the first run: empty, or with the rollup of earlier days
FirstFolders ==
    {<<>>, <<DailyFile(Rollup("2024-05-31", "2024-06-01"), FIELDS)>>}

InitRollup ==
    /\ g_folder \in FirstFolders
    /\ g_runs = 0 /\ g_added = 0
    /\ g_last = <<>>
    /\ g_written = <<>>
    \* the other components stay idle
    /\ csv_files = <<>> /\ out_file = <<>> /\ out_before = <<>> /\ pc = "idle"
    /\ fileIdx = 0 /\ rowIdx = 0 /\ seen = {} /\ unique_rows = <<>>
    /\ total_rows = 0 /\ result = <<>>
    /\ r_variant = "idle" /\ r_today = 0 /\ r_pubdate = <<>> /\ r_result = <<>>
    /\ k_text = <<>> /\ k_keywords = <<>> /\ k_result = <<>>
    /\ i_script = "idle" /\ i_feeds = <<>> /\ i_today = 0 /\ i_keywords = <<>>
    /\ i_pc = "idle" /\ i_idx = 0 /\ i_count = 0 /\ i_k = 0 /\ i_taken = 0 /\ i_tiers = <<>>
    /\ i_parsed = <<>>
    /\ i_last = <<>>
    /\ all_articles = <<>> /\ seen_urls = {} /\ seen_titles = {}
    /\ error_log = <<>> /\ successful_feeds = 0
    /\ output_csv = <<>> /\ output_error_log = <<>>
    /\ s_script = "idle" /\ s_folder = <<>> /\ s_today = 0 /\ s_cli = <<>>
    /\ s_window_days = 0 /\ s_pc = "idle" /\ s_entries = <<>> /\ s_start = <<>>
    /\ s_selected = <<>>
    /\ m_script = "idle" /\ m_files = <<>> /\ m_out = <<>> /\ m_pc = "idle"
    /\ m_idx = 0 /\ m_acc = <<>> /\ m_result = <<>>
    /\ u_args = <<>> /\ u_folder = {} /\ u_next_id = 0 /\ u_i = 0 /\ u_pc = "idle"
    /\ u_existing = <<>> /\ u_k = 0 /\ u_last = "none"
    /\ l_entry = <<>> /\ l_pc = "idle" /\ l_result = <<>>
    /\ n_entry = <<>> /\ n_pc = "idle" /\ n_result = <<>>
    /\ f_today = 0 /\ f_pc = "idle" /\ f_result = <<>>

notRollup == <<dedupeVars, recentVars, keywordVars, ingestVars, selectVars, masterVars,
               uploadVars, linkVars, snippetVars, fridayVars>>

\* the scraper of a later day, or a hand, puts a daily file into the folder
AddDailyFile ==
    /\ g_added < MaxAdded
    /\ \E f \in AddedFiles :
         /\ \A i \in 1..Len(g_folder) : g_folder[i].name # f.name
         /\ g_folder' = Append(g_folder, f)
    /\ g_added' = g_added + 1
    /\ UNCHANGED <<g_runs, g_last, g_written, notRollup>>

\* the header of the file of this name
FieldnamesOf(folder, name) ==
    (CHOOSE f \in Range(folder) : f.name = name).fieldnames

\* the folder after out_path was opened for writing and written
WithFile(folder, f) ==
    IF \E i \in 1..Len(folder) : folder[i].name = f.name
    THEN [i \in 1..Len(folder) |-> IF folder[i].name = f.name THEN f ELSE folder[i]]
    ELSE Append(folder, f)

\* what one run leaves behind
Ran(outcome, start, selected) ==
    /\ g_last' = <<[outcome |-> outcome, start |-> start, selected |-> selected]>>
    /\ g_runs' = g_runs + 1

\* main of local_dedupe_rss.py, called without --start
RollupRun ==
    /\ g_runs < MaxRuns
    /\ LET csv_entries == rss_list_csv_files_with_dates(g_folder)
           start_dt == determine_start_date(csv_entries.picks, <<>>, g_folder)
           selected == SelectSeq(csv_entries.picks, LAMBDA e : e.dt >= start_dt.start)
           csv_out == Rollup(strftime_date(selected[1].dt),
                             strftime_date(selected[Len(selected)].dt))
       IN  IF csv_entries.raised
           THEN Ran("raised", <<>>, <<>>) /\ UNCHANGED <<g_folder, g_written>>
           ELSE IF csv_entries.picks = <<>>
           THEN Ran("no files", <<>>, <<>>) /\ UNCHANGED <<g_folder, g_written>>
           ELSE IF start_dt.raised
           THEN Ran("raised", <<>>, <<>>) /\ UNCHANGED <<g_folder, g_written>>
           ELSE IF selected = <<>>
           THEN Ran("none selected", <<start_dt.start>>, <<>>)
                /\ UNCHANGED <<g_folder, g_written>>
           ELSE IF \E i \in 1..Len(selected) :
                      MissingFields(FieldnamesOf(g_folder, selected[i].name)) # <<>>
           THEN Ran("raised", <<start_dt.start>>, selected)
                /\ UNCHANGED <<g_folder, g_written>>
           ELSE /\ Ran("written", <<start_dt.start>>, selected)
                /\ g_folder' = WithFile(g_folder, DailyFile(csv_out, FIELDS))
                /\ g_written' = Append(g_written, [name |-> csv_out, inputs |-> selected])
    /\ UNCHANGED <<g_added, notRollup>>

NextRollup ==
    \/ AddDailyFile
    \/ RollupRun

SpecRollup == InitRollup /\ [][NextRollup]_vars

---------------------------------------------------------------------------
\* Claims about build_master_csv.

\* the identity key of the specification: the tuple of the FIELDS values, each
\* trimmed of surrounding whitespace (an absent value counts as empty)
TrimmedKey(d) ==
    [i \in 1..Len(FIELDS) |->
        strip(IF d[FIELDS[i]] = None THEN <<>> ELSE d[FIELDS[i]])]

\* the records of one file, and of the concatenation of a list of files
RecordsOf(f) ==
    LET rows == SelectSeq(f.rows, LAMBDA cells : cells # <<>>)
    IN  [i \in 1..Len(rows) |-> DictRow(f.fieldnames, rows[i])]

AllRecords(files) == Flatten([i \in 1..Len(files) |-> RecordsOf(files[i])])

KeysOf(records) == [i \in 1..Len(records) |-> TrimmedKey(records[i])]

\* the elements of L in the order of their first occurrence
RECURSIVE FirstOccurrences(_, _)
FirstOccurrences(L, i) ==
    IF i > Len(L) THEN <<>>
    ELSE (IF \E j \in 1..(i - 1) : L[j] = L[i] THEN <<>> ELSE <<L[i]>>)
         \o FirstOccurrences(L, i + 1)

\* the index of the first record of `records` whose key is k
FirstIndex(records, k) ==
    CHOOSE i \in 1..Len(records) :
        /\ TrimmedKey(records[i]) = k
        /\ \A j \in 1..(i - 1) : TrimmedKey(records[j]) # k

\* the cells a record is written as, verbatim
Verbatim(d) == [j \in 1..Len(FIELDS) |-> IF d[FIELDS[j]] = None THEN <<>> ELSE d[FIELDS[j]]]

SchemaValid(f) == \A k \in Range(FIELDS) : k \in Range(f.fieldnames)

Perms(n) == {p \in [1..n -> 1..n] : \A i, j \in 1..n : p[i] = p[j] => i = j}

Permuted(files, p) == [i \in 1..Len(files) |-> files[p[i]]]

\* C1: once build_master_csv has returned, the output holds exactly one row
\* per distinct identity key of the inputs, in the order in which the keys
\* first occur in the concatenation of the input files.
C1_OneRowPerKeyInFirstSeenOrder ==
    pc = "done" =>
        KeysOf(RecordsOf(out_file)) = FirstOccurrences(KeysOf(AllRecords(csv_files)), 1)

C1_Witness ==
    /\ pc = "done"
    /\ Len(csv_files) = 2
    /\ Len(out_file.rows) = 2
    /\ Len(AllRecords(csv_files)) = 3
    /\ TrimmedKey(AllRecords(csv_files)[1]) = TrimmedKey(AllRecords(csv_files)[3])

\* C2: every row of the output carries, cell for cell and untrimmed, the
\* values of the first input row with its identity key, and no two rows of
\* the output have the same trimmed key.
C2_FirstSeenValuesVerbatim ==
    pc = "done" =>
        LET recs == AllRecords(csv_files)
            out == RecordsOf(out_file)
        IN  /\ \A i \in 1..Len(out) :
                  /\ \E j \in 1..Len(recs) : TrimmedKey(recs[j]) = TrimmedKey(out[i])
                  /\ out_file.rows[i] = Verbatim(recs[FirstIndex(recs, TrimmedKey(out[i]))])
            /\ \A i, j \in 1..Len(out) :
                  TrimmedKey(out[i]) = TrimmedKey(out[j]) => i = j
            /\ \A j \in 1..Len(recs) :
                  \E i \in 1..Len(out) : TrimmedKey(out[i]) = TrimmedKey(recs[j])

\* two rows that differ only in surrounding whitespace, the padded one first:
\* one row is written, and it is the padded one
C2_Witness ==
    /\ pc = "done"
    /\ Len(AllRecords(csv_files)) = 2
    /\ AllRecords(csv_files)[1] # AllRecords(csv_files)[2]
    /\ Len(out_file.rows) = 1
    /\ out_file.rows[1] = RowApad

\* C3: when some file of the list lacks a required field name, the call never
\* reaches its write and never returns: the file at out_path stays what it
\* was, and the call either is still reading or has raised.
C3_SchemaDriftAbortsWithoutOutput ==
    (\E i \in 1..Len(csv_files) : ~SchemaValid(csv_files[i])) =>
        /\ out_file = out_before
        /\ result = <<>>
        /\ pc \in {"open", "rows", "raised"}
        /\ ~(pc = "open" /\ fileIdx > Len(csv_files))

\* the offending file is the second one, rows of the first were read, and a
\* file existed at out_path
C3_Witness ==
    /\ pc = "raised"
    /\ fileIdx = 2
    /\ total_rows > 0
    /\ out_before = OldOutput
    /\ out_file = OldOutput

\* C4: build_master_csv run on its own output as the single input writes the
\* same rows in the same order and returns unique = total and no duplicate.
C4_Idempotent ==
    pc = "done" =>
        LET again == BuildMasterCsv(<<out_file>>, out_file)
            n == Len(out_file.rows)
        IN  /\ ~again.raised
            /\ again.out = out_file
            /\ again.result = <<n, n, 0>>

\* the first run dropped a duplicate and kept a padded value
C4_Witness ==
    /\ pc = "done"
    /\ result[3] > 0
    /\ Len(out_file.rows) = 2
    /\ \E i \in 1..2 : \E j \in 1..Len(FIELDS) :
          out_file.rows[i][j] # strip(out_file.rows[i][j])

---------------------------------------------------------------------------
\* Claims about is_recent.

\* C7: is_recent admits its argument iff it parses to a calendar date d with
\* 0 <= today - d <= DAYS_LIMIT or d - today = 1; every other date and
\* every argument that does not parse is rejected.
C7_RecentIffInWindow ==
    r_result # <<>> =>
        (r_result[1] = TRUE <=>
            /\ r_pubdate.kind = "string"
            /\ \/ (0 <= r_today - r_pubdate.day /\ r_today - r_pubdate.day <= DAYS_LIMIT)
               \/ r_pubdate.day - r_today = 1)

\* a date one day ahead, written late in the evening with a western offset,
\* is admitted
C7_Witness ==
    /\ r_result = <<TRUE>>
    /\ r_pubdate.kind = "string"
    /\ r_pubdate.day = r_today + 1
    /\ r_pubdate.minutes = 1410
    /\ r_pubdate.tz = "-05:00"
    /\ r_variant = "google"

---------------------------------------------------------------------------
\* Claims about find_keywords.

\* the words of a text: its maximal runs of word characters
Tokens(s) ==
    {SubSeq(s, i, j) : <<i, j>> \in
        {ij \in (1..Len(s)) \X (1..Len(s)) :
            /\ ij[1] <= ij[2]
            /\ \A k \in ij[1]..ij[2] : IsWord(s[k])
            /\ (ij[1] = 1 \/ ~IsWord(s[ij[1] - 1]))
            /\ (ij[2] = Len(s) \/ ~IsWord(s[ij[2] + 1]))}}

IsOneWord(kw) == kw # <<>> /\ \A i \in 1..Len(kw) : IsWord(kw[i])

IsCompound(kw) == \E i \in 1..Len(kw) : kw[i] = "&"

\* C8: a plain keyword is returned only where it occurs in the normalized
\* text with no word character touching its word-character ends, and a
\* keyword that is one word is returned iff it is one of the words of the
\* normalized text (never when it is only a proper part of a longer word).
C8_PlainKeywordWholeWord ==
    k_result # <<>> =>
        LET norm == normalize(k_text)
            res == Range(k_result[1])
        IN  \A n \in 1..Len(k_keywords) :
                LET kw == k_keywords[n]
                IN  ~IsCompound(kw) =>
                      /\ kw \in res =>
                            \E i \in 1..(Len(norm) - Len(kw) + 1) :
                                LET e == i + Len(kw) - 1
                                IN  /\ SubSeq(norm, i, e) = kw
                                    /\ IsWord(kw[1]) => (i = 1 \/ ~IsWord(norm[i - 1]))
                                    /\ IsWord(kw[Len(kw)]) =>
                                          (e = Len(norm) \/ ~IsWord(norm[e + 1]))
                      /\ IsOneWord(kw) => (kw \in res <=> kw \in Tokens(norm))

\* the text "ab" holds the keyword "a" only inside a longer word: "ab" is
\* returned and "a" is not
C8_Witness ==
    /\ k_result # <<>>
    /\ k_text = <<"A", "b">>
    /\ KW_ab \in Range(k_result[1])
    /\ KW_a \notin Range(k_result[1])

\* C9 as claimed: a compound keyword is returned iff every one of its
\* non-empty parts is a word of the normalized text.
C9_CompoundIffEveryPart ==
    k_result # <<>> =>
        LET norm == normalize(k_text)
            res == Range(k_result[1])
        IN  \A n \in 1..Len(k_keywords) :
                LET kw == k_keywords[n]
                IN  (IsCompound(kw) /\ \A i \in 1..Len(Parts(kw)) : IsOneWord(Parts(kw)[i])) =>
                        (kw \in res <=>
                            \A i \in 1..Len(Parts(kw)) : Parts(kw)[i] \in Tokens(norm))

\* C9 as amended: a compound keyword is returned iff it has a non-empty part
\* and every one of its non-empty parts is a word of the normalized text, in
\* whatever order the parts occur there.
C9_CompoundIffSomePartAndEveryPart ==
    k_result # <<>> =>
        LET norm == normalize(k_text)
            res == Range(k_result[1])
        IN  \A n \in 1..Len(k_keywords) :
                LET kw == k_keywords[n]
                IN  (IsCompound(kw) /\ \A i \in 1..Len(Parts(kw)) : IsOneWord(Parts(kw)[i])) =>
                        (kw \in res <=>
                            /\ Parts(kw) # <<>>
                            /\ \A i \in 1..Len(Parts(kw)) : Parts(kw)[i] \in Tokens(norm))

\* "a & b" is returned for the text "b, a": the parts in the other order
C9_Witness ==
    /\ k_result # <<>>
    /\ k_text = <<"b", ",", " ", "a">>
    /\ KW_a_b \in Range(k_result[1])
    /\ KW_b_ab \notin Range(k_result[1])
    /\ KW_amp \notin Range(k_result[1])


---------------------------------------------------------------------------
\* Claims about the entry loop of the scrapers.

\* the article the entry gives when nothing was emitted before it: <<>> when
\* the entry does not pass the other filters
Candidate(entry) ==
    IF i_script = "rss"
    THEN RssEntry(entry, i_today, i_keywords, i_feeds[i_idx].domain, {}, {}).article
    ELSE GoogleEntry(entry, i_today, i_feeds[i_idx].keywords, {}, {}).article

TitleDate(a) == <<lower(a.title), a.date_published>>

Alike(a, b) == a.url = b.url \/ TitleDate(a) = TitleDate(b)

NoTwoAlike ==
    \A i, j \in 1..Len(all_articles) :
        i # j => ~Alike(all_articles[i], all_articles[j])

\* a step of the entry loop: the entry it takes is in i_last'
EntryStep == i_pc = "entries" /\ i_k' = i_k + 1

DedupStep ==
    EntryStep =>
        LET c == Candidate(i_last'[1].entry)
        IN  IF c = <<>> THEN all_articles' = all_articles
            ELSE IF \E a \in Range(all_articles) : Alike(a, c[1])
            THEN all_articles' = all_articles /\ i_last'[1].outcome = "duplicate"
            ELSE all_articles' = Append(all_articles, c[1])
                 /\ i_last'[1].outcome = "emitted"

\* C6: in a run of either scraper, at every point of the feed and entry
\* loops, no two emitted articles have the same URL and no two have the same
\* (lower-cased title, published date) pair; an entry that passes the other
\* filters is discarded exactly when an article emitted earlier has its URL
\* or its (lower-cased title, date) pair, and is appended otherwise, the
\* articles emitted before it staying as they are.
C6_FirstOccurrenceWins == []NoTwoAlike /\ [][DedupStep]_vars

\* after two articles were emitted, an entry that repeats the title and day
\* of the first under a new URL has been discarded
C6_Witness ==
    /\ i_pc = "entries"
    /\ Len(all_articles) = 2
    /\ i_last # <<>>
    /\ i_last[1].outcome = "duplicate"
    /\ Candidate(i_last[1].entry) # <<>>
    /\ Candidate(i_last[1].entry)[1].url \notin {a.url : a \in Range(all_articles)}
    /\ TitleDate(Candidate(i_last[1].entry)[1]) = TitleDate(all_articles[1])

\* the keywords the text triggers, whatever the order they are tried in
TriggeredBy(text) ==
    {kw \in load_keywords(KeywordRows) : text # <<>> /\ Triggered(kw, normalize(text))}

\* the elements of S in ascending order, joined by ", "
JoinSorted(S) ==
    Join(CHOOSE s \in Orderings(S) :
             \A i, j \in 1..Len(s) : i < j => LexLess(s[i], s[j]),
         <<",", " ">>)

\* C10: in a run of the RSS scraper every emitted article has a non-empty
\* union of the keywords triggered by its title and by its snippet, and its
\* keywords field is that union, each keyword once, in ascending order and
\* joined by ", ", whatever the iteration order of the keyword set.
C10_KeywordsFieldIsSortedUnion ==
    i_script = "rss" =>
        \A n \in 1..Len(all_articles) :
            LET a == all_articles[n]
                union == TriggeredBy(a.title) \cup TriggeredBy(a.snippet)
            IN  union # {} /\ a.keywords = JoinSorted(union)

\* the keyword set iterates "b" before "a", both are triggered by the title
\* and one of them again by the snippet, and the field reads "a, b"
C10_Witness ==
    /\ i_script = "rss"
    /\ i_keywords = << <<"b">>, <<"a">> >>
    /\ \E n \in 1..Len(all_articles) :
         /\ TriggeredBy(all_articles[n].title) = {<<"a">>, <<"b">>}
         /\ TriggeredBy(all_articles[n].snippet) = {<<"a">>}
         /\ all_articles[n].keywords = <<"a", ",", " ", "b">>


---------------------------------------------------------------------------
\* Claims about the feed loop of the scrapers.

\* every call of the fetch was answered by a failure
AllFailed(calls) == calls # <<>> /\ \A n \in 1..Len(calls) : calls[n].answer # "ok"

\* error_log' is error_log with one record of this type for the current feed
LogsOne(error_type) ==
    /\ Len(error_log') = Len(error_log) + 1
    /\ SubSeq(error_log', 1, Len(error_log)) = error_log
    /\ error_log'[Len(error_log')].error_type = error_type
    /\ error_log'[Len(error_log')].feed_url = i_feeds[i_idx].feed_url

\* the loop leaves the current feed without an article and stands at the
\* next feed of the list
GoesOnToNextFeed ==
    all_articles' = all_articles /\ i_idx' = i_idx + 1 /\ i_pc' = "fetch"

\* a step that fetches the current feed, and one that parses it
FetchStep == i_pc = "fetch" /\ i_idx <= Len(i_feeds)

FailedFetchIsLogged ==
    (FetchStep /\ AllFailed(i_tiers')) => LogsOne("fetch") /\ GoesOnToNextFeed

\* the records of the error log belong to different feeds already left, in
\* the order of the list
OneRecordPerFeed ==
    /\ Len(error_log) <= i_idx - 1
    /\ i_pc = "finished" => i_idx = Len(i_feeds) + 1

\* C11: in a run of either scraper, a fetch whose calls all fail appends
\* exactly one record of error_type "fetch" with the URL of the feed, emits
\* no article, and leaves the loop standing at the next feed of the list; the
\* log never holds more records than feeds were left behind, and the run ends
\* only after the last feed.
C11_FetchFailureIsLoggedAndSkipped == []OneRecordPerFeed /\ [][FailedFetchIsLogged]_vars

\* the first feed failed at requests (HTTP 403) and at cloudscraper; the
\* second feed has then been fetched, parsed and has given an article
C11_Witness ==
    /\ i_script = "rss"
    /\ Len(error_log) = 1
    /\ error_log[1].error_type = "fetch"
    /\ error_log[1].error_message = <<"Cloudscraper failed">>
    /\ error_log[1].feed_url = i_feeds[1].feed_url
    /\ i_idx = 2 /\ i_pc = "entries"
    /\ Len(all_articles) = 1

ParseStep == i_pc = "parse"

\* C12: in a run of either scraper, a parse that yields zero entries appends
\* a record of error_type "parse" for the feed, emits no article, and leaves
\* the loop standing at the next feed of the list.
C12_ZeroEntriesIsLogged ==
    [][(ParseStep /\ i_parsed' # <<>> /\ i_parsed'[1].count = 0)
           => LogsOne("parse") /\ GoesOnToNextFeed]_vars

---------------------------------------------------------------------------
\* Claims about the selection of dated files.

\* the files of the folder named <stem>_<date>.csv, each with its day
DatedFiles(stem, ext) ==
    UNION {{[file |-> f, day |-> parse_date_str(d).day] :
               d \in {x \in DateShaped : /\ f.name = Daily(stem, x, ext)
                                         /\ "day" \in DOMAIN parse_date_str(x)}} :
           f \in Range(s_folder)}

SelectedFiles == {[id |-> s_selected[i].id, name |-> s_selected[i].name] :
                      i \in 1..Len(s_selected)}

\* the week-ending date of the run: the one given, or the Friday of the seven
\* days that end today
WeekEnding ==
    IF s_script = "weekly" /\ s_cli # <<>> THEN s_cli[1]
    ELSE CHOOSE d \in (s_today - 6)..s_today : weekday(d) = 4

WeekStem == IF s_script = "weekly" THEN "google_alerts_articles" ELSE "rss_articles"

WeekIsSelected ==
    (s_script \in {"weekly", "drive"} /\ s_pc = "done")
        => /\ SelectedFiles = {f.file : f \in {g \in DatedFiles(WeekStem, ".csv") :
                                   /\ WeekEnding - (s_window_days - 1) <= g.day
                                   /\ g.day <= WeekEnding}}
           /\ \A i \in 1..Len(s_selected) :
                  s_selected[i].dt \notin {WeekEnding - s_window_days, WeekEnding + 1}

NonPositiveWindowIsRejected ==
    (s_script = "weekly" /\ s_pc = "select" /\ s_window_days <= 0)
        => s_pc' = "raised" /\ s_selected' = <<>>

\* C13: a fixed-week selection with week-ending date W and a window of 7 days
\* selects exactly the dated files whose date d has W-6 <= d <= W, never one
\* dated W-7 or W+1, and a window size that is not positive is rejected with an
\* error.
C13_FixedWeekWindow == []WeekIsSelected /\ [][NonPositiveWindowIsRejected]_vars

HasFile(name) == \E i \in 1..Len(s_folder) : s_folder[i].name = name

C13_Witness ==
    /\ s_script = "weekly" /\ s_pc = "done" /\ s_window_days = 7
    /\ WeekEnding = 739044
    /\ HasFile(Daily("google_alerts_articles", "2024-05-31", ".csv"))
    /\ HasFile(Daily("google_alerts_articles", "2024-06-01", ".csv"))
    /\ HasFile(Daily("google_alerts_articles", "2024-06-08", ".csv"))
    /\ Len(s_selected) = 1 /\ s_selected[1].dt = 739038

\* the rollups of the folder, each with the day it ends
Rollups ==
    UNION {{[file |-> f, day |-> parse_date_str(b).day] :
               b \in {x \in DateShaped :
                         /\ \E a \in DateShaped : f.name = Rollup(a, x)
                         /\ "day" \in DOMAIN parse_date_str(x)}} :
           f \in Range(s_folder)}

\* the greatest member of a set of days
Latest(days) == CHOOSE d \in days : \A e \in days : e <= d

Earliest(days) == CHOOSE d \in days : \A e \in days : d <= e

EntriesFrom(start) == {s_entries[i] : i \in {j \in 1..Len(s_entries) : s_entries[j].dt >= start}}

\* C14: an incremental selection with no explicit start begins the day after
\* the latest end date of the rollups, if there is a rollup, and selects exactly
\* the daily files dated on or after that day; with no rollup it begins at the
\* date of the earliest daily file and selects every daily file.
C14_IncrementalStart ==
    (s_script = "local" /\ s_pc = "done" /\ s_cli = <<>> /\ s_entries # <<>>)
        => IF Rollups # {}
           THEN /\ s_start = <<Latest({r.day : r \in Rollups}) + 1>>
                /\ Range(s_selected) = EntriesFrom(s_start[1])
                /\ Len(s_selected) = Cardinality(EntriesFrom(s_start[1]))
           ELSE /\ s_start = <<Earliest({e.dt : e \in Range(s_entries)})>>
                /\ s_selected = s_entries

C14_Witness ==
    /\ s_script = "local" /\ s_pc = "done" /\ s_cli = <<>>
    /\ HasFile(Rollup("2024-06-01", "2024-06-07"))
    /\ HasFile(Daily("rss_articles", "2024-06-07", ".csv"))
    /\ HasFile(Daily("rss_articles", "2024-06-08", ".csv"))
    /\ s_start = <<739045>>
    /\ Len(s_selected) = 1 /\ s_selected[1].name = Daily("rss_articles", "2024-06-08", ".csv")

\* what a run of the script of this state selects from a folder: the selected
\* files, or that it raised
Selection(folder) ==
    CASE s_script = "weekly" ->
           LET csv_entries == weekly_list_csv_files_with_dates(folder)
               week_ending == IF s_cli = <<>> THEN most_recent_friday(s_today) ELSE s_cli[1]
           IN  IF csv_entries.raised \/ csv_entries.picks = <<>> THEN csv_entries
               ELSE weekly_filter_files_for_week(csv_entries.picks, week_ending,
                                                 s_window_days)
      [] s_script = "drive" ->
           drive_filter_files_for_week(list_candidate_files(folder, "rss_articles"),
                                       "rss_articles",
                                       compute_week_window(s_today).start_date,
                                       compute_week_window(s_today).end_date)
      [] s_script = "local" ->
           LET csv_entries == rss_list_csv_files_with_dates(folder)
           IN  IF csv_entries.raised \/ csv_entries.picks = <<>> THEN csv_entries
               ELSE LET start_dt == determine_start_date(csv_entries.picks, s_cli, folder)
                    IN  [raised |-> start_dt.raised,
                         picks |-> IF start_dt.raised THEN <<>>
                                   ELSE SelectSeq(csv_entries.picks,
                                                  LAMBDA e : e.dt >= start_dt.start)]
      [] s_script = "range" ->
           [raised |-> FALSE,
            picks |-> select_files_in_dates(folder, ".csv", daterange(s_cli[1], s_today))]

\* ascending by date, then by name
InOrder(picks) ==
    \A i, j \in 1..Len(picks) :
        i < j => \/ picks[i].dt < picks[j].dt
                 \/ /\ picks[i].dt = picks[j].dt
                    /\ ~NameLess(picks[j].name, picks[i].name)

\* C15: every policy returns the selected files sorted ascending by date and
\* then by file name, and the list is the same for every order in which the
\* same candidate files are enumerated.
C15_SortedAndOrderIndependent ==
    s_pc = "done"
        => /\ InOrder(s_selected)
           /\ \A p \in Perms(Len(s_folder)) :
                  Selection(Permuted(s_folder, p)).picks = s_selected

\* the files of the folder whose whole name is <stem>_<YYYY-MM-DD><ext>
Conforming(stem, ext) ==
    {f \in Range(s_folder) : \E x \in DateShaped : f.name = Daily(stem, x, ext)}

FilesOf(picks) == {[id |-> picks[i].id, name |-> picks[i].name] : i \in 1..Len(picks)}

ListStep == s_pc = "list" /\ s_script \in {"weekly", "local", "range"} /\ s_pc' # "exit"

ListedAsDated ==
    CASE s_script = "weekly" ->
           FilesOf(s_entries') = Conforming("google_alerts_articles", ".csv")
      [] s_script = "local" ->
           FilesOf(s_entries') = Conforming("rss_articles", ".csv")
      [] s_script = "range" ->
           FilesOf(s_selected') =
               {f \in Conforming("candidate_articles", ".csv") :
                   f.name[3] \in daterange(s_cli[1], s_today)}

\* C16: a file of the scanned folder is taken as a dated file if and only if
\* its whole name is <stem>_<YYYY-MM-DD>.<ext>; every other file is ignored,
\* and no file name makes the listing fail with an error.
C16_OnlyExactNamesAreDated ==
    [][ListStep => (s_pc' # "raised" /\ ListedAsDated)]_vars

---------------------------------------------------------------------------
\* Claims about build_master_csv of dedupe_google_weekly.py and
\* build_master_json.

\* the records of the input files, in the order they are read: the rows of a
\* CSV file that are not blank lines, the elements of a JSON list that are
\* objects
InputRecords(f) ==
    IF m_script = "weekly" THEN SelectSeq(f.rows, LAMBDA row : row # <<>>)
    ELSE SelectSeq(f.data, LAMBDA obj : obj.t = "object")

RecordsRead == Flatten([i \in 1..Len(m_files) |-> InputRecords(m_files[i])])

RecordsWritten == IF m_script = "weekly" THEN m_out.rows ELSE m_out.data

\* C17: the triple returned is (unique, total, duplicates) with total the
\* number of records read over all inputs, unique the number of records written
\* to the output, duplicates = total - unique, 0 <= duplicates and
\* unique <= total.
C17_CountsAddUp ==
    m_pc = "done"
        => /\ m_result[2] = Len(RecordsRead)
           /\ m_out.exists /\ m_result[1] = Len(RecordsWritten)
           /\ m_result[3] = m_result[2] - m_result[1]
           /\ 0 <= m_result[3]
           /\ m_result[1] <= m_result[2]

C17_Witness ==
    /\ m_script = "weekly" /\ m_pc = "done"
    /\ Len(m_files) = 2 /\ Len(m_files[1].rows) = 2
    /\ m_result = <<1, 3, 2>>

\* two JSON values with the same keys and values, whatever the order of the
\* keys
RECURSIVE SameValue(_, _)
SameValue(x, y) ==
    /\ x.t = y.t
    /\ x.text = y.text
    /\ {x.members[i].k : i \in 1..Len(x.members)} = {y.members[i].k : i \in 1..Len(y.members)}
    /\ \A i \in 1..Len(x.members), j \in 1..Len(y.members) :
           x.members[i].k = y.members[j].k => SameValue(x.members[i].v, y.members[j].v)

\* C18: build_master_json skips every element of a top-level list that is not
\* an object, without raising and without counting it, and keeps one object of
\* those that have the same keys and values, the first, whatever the order of
\* their keys.
C18_JsonObjectsByCanonicalForm ==
    /\ (m_script = "json" /\ m_pc = "raised") => m_files[m_idx].top # "list"
    /\ (m_script = "json" /\ m_pc = "done")
           => /\ m_result[2] = Len(RecordsRead)
              /\ m_result[1] = Len(m_out.data)
              /\ \A i, j \in 1..Len(m_out.data) :
                     SameValue(m_out.data[i], m_out.data[j]) => i = j
              /\ \E at \in [1..Len(m_out.data) -> 1..Len(RecordsRead)] :
                     /\ \A i \in DOMAIN at : RecordsRead[at[i]] = m_out.data[i]
                     /\ \A i, j \in DOMAIN at : i < j => at[i] < at[j]
                     /\ \A n \in 1..Len(RecordsRead) :
                            \E i \in DOMAIN at :
                                at[i] <= n /\ SameValue(RecordsRead[n], m_out.data[i])

C18_Witness ==
    /\ m_script = "json" /\ m_pc = "done"
    /\ Len(m_files) = 1 /\ m_files[1].data = <<ObjBA, NotObjNumber, ObjAB>>
    /\ m_result = <<1, 2, 1>>
    /\ m_out.data = <<ObjBA>>

---------------------------------------------------------------------------
\* Claims about upload_file.

CreateStep == u_pc = "delete" /\ u_k > Len(u_existing)

DeleteStep == u_pc = "delete" /\ u_k <= Len(u_existing)

OverwriteStep ==
    /\ CreateStep
          => /\ SameName(u_folder, u_args[u_i].name) = {}
             /\ u_last' = "created"
                    => Cardinality(SameName(u_folder', u_args[u_i].name)) = 1
    /\ (DeleteStep /\ u_last' = "HttpError 404") => u_pc' = "delete"
    /\ (DeleteStep /\ u_last' = "error") => u_pc' = "raised"
    /\ u_pc = "raised" => u_folder' = u_folder

\* C19: with overwrite enabled, upload_file deletes every file of the same
\* name in the folder before it issues the create, so that after a successful
\* upload the folder holds exactly one file of that name, however many it held
\* before; a delete that fails with "not found" is tolerated, and any other
\* failure of a delete aborts the upload before the create.
C19_OverwriteLeavesOneFile == [][OverwriteStep]_vars

---------------------------------------------------------------------------
\* Claims about _extract_best_link.

\* the entry's primary link, or the first alternate link when the primary is
\* absent or empty; the empty string when there is neither
ResolvedLink ==
    IF l_entry.link # None /\ l_entry.link # <<>> THEN l_entry.link
    ELSE IF l_entry.links # <<>> /\ l_entry.links[1] # None THEN l_entry.links[1]
    ELSE <<>>

\* the host is the redirect endpoint and the path indicates a redirect
IsRedirect(link) ==
    /\ EndsWithGoogleCom(urlparse(link).netloc)
    /\ StartsWithUrl(urlparse(link).path)

\* the first non-empty value of q, or of url when q is absent or empty;
\* <<>> when there is neither
Target(link) ==
    LET q == qs_get(urlparse(link).query, <<"q">>)
        url == qs_get(urlparse(link).query, <<"url">>)
    IN  IF q # <<>> THEN q[1] ELSE IF url # <<>> THEN url[1] ELSE <<>>

\* the result of link extraction when links and targets are taken as
\* `kept` leaves them
BestLink(kept(_)) ==
    LET link == kept(ResolvedLink)
    IN  IF IsRedirect(link) /\ Target(link) # <<>> THEN kept(Target(link)) ELSE link

---------------------------------------------------------------------------
\* Claims about the fetch tiers.

\* the feed the loop stands at is classified as hardened
CurrentIsHardened == is_hardened(i_feeds[i_idx].feed_url)

RssFetchStep == i_script = "rss" /\ FetchStep

Tiers(calls) == {calls[n].tier : n \in 1..Len(calls)}

\* the fetch has succeeded: the loop goes on to parse the feed and logs nothing
FetchSucceeds == i_pc' = "parse" /\ i_idx' = i_idx /\ error_log' = error_log

\* the fetch has failed with this message
FetchFailsWith(msgs) ==
    /\ LogsOne("fetch")
    /\ error_log'[Len(error_log')].error_message \in msgs
    /\ GoesOnToNextFeed

HardenedGoesToBrowser ==
    (RssFetchStep /\ CurrentIsHardened) =>
        /\ Len(i_tiers') = 1
        /\ i_tiers'[1].tier = "playwright"
        /\ i_tiers'[1].answer = "ok" => FetchSucceeds
        /\ i_tiers'[1].answer = "notok" => FetchFailsWith({<<"Playwright request failed">>})
        /\ i_tiers'[1].answer = "exception" => FetchFailsWith({<<"Playwright failed">>})

\* C21: the fetch of a feed classified as hardened makes one call, the
\* headless-browser request; the plain request and the bypass client are not
\* called, and the fetch succeeds iff that request does, failing with the
\* browser's failure otherwise.
C21_HardenedGoesToBrowser == [][HardenedGoesToBrowser]_vars

\* a hardened feed has been fetched by the browser alone and goes to parsing
C21_Witness ==
    /\ i_script = "rss" /\ i_pc = "parse"
    /\ CurrentIsHardened
    /\ i_tiers = <<Call("playwright", "ok")>>

TiersInOrder ==
    (RssFetchStep /\ ~CurrentIsHardened) =>
        /\ Len(i_tiers') \in {1, 2}
        /\ i_tiers'[1].tier = "requests"
        /\ Len(i_tiers') = 2 <=> i_tiers'[1].answer = "http403"
        /\ Len(i_tiers') = 2 => i_tiers'[2].tier = "cloudscraper"
        /\ "playwright" \notin Tiers(i_tiers')
        /\ i_tiers'[Len(i_tiers')].answer = "ok" => FetchSucceeds
        /\ i_tiers'[Len(i_tiers')].answer # "ok" => LogsOne("fetch") /\ GoesOnToNextFeed

\* C22: the fetch of a feed not classified as hardened calls the plain
\* request first; it calls the bypass client next iff the plain request
\* failed with HTTP 403, and calls nothing else; the fetch succeeds iff its
\* last call did.
C22_TiersInOrder == [][TiersInOrder]_vars

\* a feed that is not hardened was refused with HTTP 403 and fetched by the
\* bypass client
C22_Witness ==
    /\ i_script = "rss" /\ i_pc = "parse"
    /\ ~CurrentIsHardened
    /\ i_tiers = <<Call("requests", "http403"), Call("cloudscraper", "ok")>>

\* the fetch of the current feed calls each tier at most once and leaves the
\* feed fetched: the loop is at its parsing or at the next feed
OneAttempt ==
    FetchStep =>
        /\ i_tiers' # <<>>
        /\ \A m, n \in 1..Len(i_tiers') : i_tiers'[m].tier = i_tiers'[n].tier => m = n
        /\ (i_pc' = "parse" /\ i_idx' = i_idx) \/ (i_pc' = "fetch" /\ i_idx' = i_idx + 1)

\* only a fetch calls the network, and the loop comes to stand at a fetch
\* only by going on to the next feed
NoSecondAttempt ==
    /\ ~FetchStep => i_tiers' = i_tiers
    /\ i_idx' \in {i_idx, i_idx + 1}
    /\ i_pc' = "fetch" => i_idx' = i_idx + 1

\* C23: in a run of either scraper every feed of the list is fetched once:
\* the fetch calls each tier at most once, whatever the answers, and the loop
\* never comes back to a feed it has fetched.
C23_OneAttemptPerFeed == [][OneAttempt /\ NoSecondAttempt]_vars

\* the first feed failed at both of its tiers, each called once, and the run
\* has finished with one fetch record for it
C23_Witness ==
    /\ i_pc = "finished"
    /\ Len(i_feeds) = 2
    /\ Len(error_log) >= 1
    /\ error_log[1].feed_url = i_feeds[1].feed_url
    /\ error_log[1].error_message = <<"Cloudscraper failed">>

---------------------------------------------------------------------------
\* Claims about the parse of a feed and the entry loop.

\* the parse of this step gave entries and set bozo
ParsedMalformedWithEntries ==
    /\ ParseStep
    /\ i_parsed' # <<>>
    /\ i_parsed'[1].count >= 1
    /\ i_parsed'[1].bozo = 1

\* the feed counts as parsed: nothing is logged, the feed is counted as
\* successful, and the entry loop starts on its entries
CountsAsParsed ==
    /\ error_log' = error_log
    /\ successful_feeds' = successful_feeds + 1
    /\ i_pc' = "entries" /\ i_idx' = i_idx /\ i_k' = 0
    /\ i_count' = i_parsed'[1].count

\* C24: in a run of either scraper, a parse that yields at least one entry
\* with the malformed flag set appends no error record, counts the feed among
\* the successful feeds, and hands its entries to the entry loop as for a
\* well-formed feed.
C24_MalformedWithEntriesSucceeds ==
    [][ParsedMalformedWithEntries => CountsAsParsed]_vars

\* the entry taken by this step raised an exception while it was normalized
EntryRaises == EntryStep /\ i_last'[1].outcome = "error"

\* the step skips the entry and nothing else: no record, no article, the
\* dedup state as it was, and the loop at the next entry of the same feed
OnlyTheEntryIsSkipped ==
    /\ error_log' = error_log
    /\ all_articles' = all_articles
    /\ seen_urls' = seen_urls /\ seen_titles' = seen_titles
    /\ successful_feeds' = successful_feeds
    /\ i_pc' = "entries" /\ i_idx' = i_idx /\ i_count' = i_count /\ i_k' = i_k + 1

\* the loop leaves a feed it has parsed only when all its entries were taken
FeedIsLeftWhenDone ==
    (i_pc = "entries" /\ (i_idx' # i_idx \/ i_pc' # "entries")) =>
        /\ i_k = i_count
        /\ i_idx' = i_idx + 1 /\ i_pc' = "fetch"

\* the run finishes only after the last feed of the list
RunEndsAfterLastFeed == i_pc = "finished" => i_idx = Len(i_feeds) + 1

\* C25: in a run of either scraper, an entry that raises while it is
\* normalized is skipped and nothing else happens: no error record is
\* appended, the articles and the seen sets stay as they were, and the loop
\* stands at the next entry; no feed is left before all its entries were
\* taken, and the run does not end before the last feed.
C25_EntryErrorSkipsOnlyTheEntry ==
    /\ []RunEndsAfterLastFeed
    /\ [][(EntryRaises => OnlyTheEntryIsSkipped) /\ FeedIsLeftWhenDone]_vars

\* in the second feed, after an article was emitted, the second entry has
\* raised: the article and the seen sets are there, the log is empty, and the
\* feed has a third entry to take
C25_Witness ==
    /\ i_idx = 2 /\ i_pc = "entries" /\ i_k = 2 /\ i_count = 3
    /\ i_last # <<>> /\ i_last[1].outcome = "error"
    /\ Len(all_articles) = 1 /\ Cardinality(seen_urls) = 1
    /\ error_log = <<>>

---------------------------------------------------------------------------
\* Claims about _extract_snippet.

\* the candidates in the order of preference: the value of the first content
\* block, the summary, the description; <<>> stands for an absent one
SnippetCandidates ==
    <<IF n_entry.content # <<>> THEN n_entry.content[1] ELSE <<>>,
      OrEmpty(n_entry.summary),
      OrEmpty(n_entry.description)>>

\* a candidate HTML-stripped, normalized, whitespace-collapsed and truncated
Cleaned(candidate) == Truncate(html_to_text(candidate), MAX_SNIPPET_LEN)

\* C26: the snippet is the first of the candidates content[0].value, summary,
\* description that is non-empty after cleaning, cleaned; it is empty only
\* when every candidate is absent or empty after cleaning, and it is never
\* longer than MAX_SNIPPET_LEN.
C26_FirstNonEmptyCandidate ==
    n_pc = "done" =>
        /\ Len(n_result) <= MAX_SNIPPET_LEN
        /\ \A k \in 1..3 :
              (/\ Cleaned(SnippetCandidates[k]) # <<>>
               /\ \A j \in 1..(k - 1) : Cleaned(SnippetCandidates[j]) = <<>>)
                  => n_result = Cleaned(SnippetCandidates[k])
        /\ (\A k \in 1..3 : Cleaned(SnippetCandidates[k]) = <<>>) => n_result = <<>>

---------------------------------------------------------------------------
\* Claims about most_recent_friday and compute_week_window.

\* the day of the week of a day ordinal, Monday 0 to Sunday 6, counted from
\* 2024-05-31, a Friday
DayOfWeek(day) == (day - 739037 + 4) % 7

\* the one Friday among d-6 .. d
FridayOnOrBefore(d) == CHOOSE f \in (d - 6)..d : DayOfWeek(f) = 4

\* C27: most_recent_friday(d) is d - ((weekday(d) - 4) mod 7): a Friday, one
\* of d-6 .. d, and d itself when d is a Friday; compute_week_window(d) is the
\* pair (that Friday - 6, that Friday), a Saturday and a Friday.
C27_MostRecentFriday ==
    f_pc = "done" =>
        LET friday == f_result[Len(f_result)]
        IN  /\ Len(f_result) \in {1, 2}
            /\ friday = f_today - ((DayOfWeek(f_today) - 4) % 7)
            /\ DayOfWeek(friday) = 4
            /\ f_today - 6 <= friday /\ friday <= f_today
            /\ friday = FridayOnOrBefore(f_today)
            /\ DayOfWeek(f_today) = 4 => friday = f_today
            /\ Len(f_result) = 2 =>
                   /\ f_result[1] = friday - 6
                   /\ DayOfWeek(f_result[1]) = 5

\* for Thursday 2024-06-06 the window is Saturday 2024-05-25 to Friday
\* 2024-05-31
C27_Witness ==
    /\ f_pc = "done"
    /\ f_today = 739043
    /\ f_result = <<739031, 739037>>

---------------------------------------------------------------------------
\* Claims about the incremental runs of local_dedupe_rss.py.

\* a step that is one run of main
RunStep == g_runs' = g_runs + 1

InputNames(w) == {w.inputs[i].name : i \in 1..Len(w.inputs)}

InputDates(w) == {w.inputs[i].dt : i \in 1..Len(w.inputs)}

\* no daily file went into two of the rollups written
NoFileInTwoRollups ==
    \A i, j \in 1..Len(g_written) :
        i # j => InputNames(g_written[i]) \cap InputNames(g_written[j]) = {}

\* the date string of the model for a day
DateString(day) == CHOOSE s \in DateShaped : parse_date_str(s) = [day |-> day]

\* a run that writes a rollup names it by the earliest and the latest date
\* of the files it selected, and the file is in the folder afterwards
NamedByFirstAndLast ==
    (RunStep /\ g_last'[1].outcome = "written") =>
        LET w == g_written'[Len(g_written')]
            first == CHOOSE d \in InputDates(w) : \A e \in InputDates(w) : d <= e
            last == CHOOSE d \in InputDates(w) : \A e \in InputDates(w) : e <= d
        IN  /\ Len(g_written') = Len(g_written) + 1
            /\ w.inputs = g_last'[1].selected /\ w.inputs # <<>>
            /\ w.name = <<"deduped_candidate_articles", "_", DateString(first), "_to_",
                          DateString(last), ".csv">>
            /\ \E n \in 1..Len(g_folder') : g_folder'[n].name = w.name

\* a run starts after every date that went into a rollup of an earlier run
StartsAfterEarlierRollups ==
    (RunStep /\ g_last'[1].start # <<>>) =>
        \A n \in 1..Len(g_written) :
            \A d \in InputDates(g_written[n]) : d < g_last'[1].start[1]

\* a run that selects no file writes nothing: the folder, and with it the
\* latest end date covered, stay as they are
NothingSelectedNothingWritten ==
    (RunStep /\ g_last'[1].selected = <<>>) =>
        /\ g_folder' = g_folder
        /\ g_written' = g_written
        /\ find_latest_deduped_end_date(g_folder') = find_latest_deduped_end_date(g_folder)

\* C28: over the runs of local_dedupe_rss.py without --start on a folder
\* that gets daily files between the runs, no daily file goes into more than
\* one rollup; a run that writes a rollup names it by the dates of the first
\* and last selected files; every run starts strictly after all dates that
\* went into the rollups of earlier runs; and a run that selects no file
\* writes no rollup and leaves the latest end date as it was.
C28_NoFileInTwoRollups ==
    /\ []NoFileInTwoRollups
    /\ [][NamedByFirstAndLast /\ StartsAfterEarlierRollups
              /\ NothingSelectedNothingWritten]_vars

\* two runs wrote a rollup each, a daily file having come in between, and a
\* third run found nothing new
C28_Witness ==
    /\ g_runs = 3
    /\ Len(g_written) = 2
    /\ g_last[1].outcome = "none selected"
    /\ InputDates(g_written[1]) # {} /\ InputDates(g_written[2]) # {}


---------------------------------------------------------------------------
\* Claims about the articles an ingestion run has collected.

\* the day stored in an article is in the window is_recent lets through
StoredDateInWindow(a) ==
    /\ -1 <= i_today - a.date_published.ymd
    /\ i_today - a.date_published.ymd <= DAYS_LIMIT

HasTitleAndUrl(a) == a.title # <<>> /\ a.url # <<>>

OneKeyPerArticle ==
    /\ Len(all_articles) = Cardinality(seen_urls)
    /\ Len(all_articles) = Cardinality(seen_titles)

\* every article has a title and a URL
AllHaveTitleAndUrl == \A n \in 1..Len(all_articles) : HasTitleAndUrl(all_articles[n])

\* every stored date is in the window
AllDatesInWindow == \A n \in 1..Len(all_articles) : StoredDateInWindow(all_articles[n])

\* C29: at every point of an ingestion run, every article collected so far
\* has a non-empty title, a non-empty URL and a stored date_published d with
\* -1 <= today - d <= DAYS_LIMIT, and the number of collected articles is
\* the size of the set of seen URLs and of the set of seen (title, date)
\* pairs.
C29_CollectedArticlesAreComplete ==
    AllHaveTitleAndUrl /\ AllDatesInWindow /\ OneKeyPerArticle

\* the parts of C29 about the dates and the counts
C29_DatesAndCounts == AllDatesInWindow /\ OneKeyPerArticle

\* the run collected the entry with the blank title
C29_BlankTitleCollected ==
    /\ i_script = "rss"
    /\ i_last # <<>> /\ i_last[1].entry = RssBlankTitle /\ i_last[1].outcome = "emitted"
    /\ \E n \in 1..Len(all_articles) :
          all_articles[n].title = <<>> /\ all_articles[n].url = <<"u5">>

=============================================================================
